---- MODULE Spec2Model ----
(***************************************************************************)
(* The OBJ/MTL loader of tools.js (load_obj, load_mtl and their helpers)   *)
(* as a state machine.  One action is one event handler of the browser's   *)
(* event loop, except that the OBJ file's load handler (obj_loader) is     *)
(* split into one step per line of the file: no other handler can run      *)
(* between two of its steps, which the guards on pc enforce.               *)
(***************************************************************************)
EXTENDS Integers, Sequences, FiniteSets, TLC

(***************************************************************************)
(* Bounds of the model.                                                    *)
(***************************************************************************)
MaxMtls == 2     \* mtllib arguments in one OBJ file (final length of mtls)
MaxFaces == 2    \* f lines up to the last accepted face in one OBJ file (Spec)
MaxTxts == 2     \* texture map lines in one MTL file
FaceMaxVs == 3   \* v lines in one OBJ file (SpecFace)
MaxIdx == 4      \* largest absolute value of an index on a face line (SpecFace)

(***************************************************************************)
(* Inputs: the names that occur in the files.                              *)
(***************************************************************************)
MtlFiles == {"a.mtl", "b.mtl"}
\* "constructor" is a property every JavaScript object inherits.
MaterialNames == {"m1", "constructor"}
ObjectNames == {"can"}

(***************************************************************************)
(* JavaScript values.  null and undefined are records so that they compare  *)
(* with every other record; a vector is a tuple of integers and the null   *)
(* that stands in a vector's place is the empty tuple.                     *)
(***************************************************************************)
Null == [tag |-> "null"]
Undefined == [tag |-> "undefined"]
Str(s) == [tag |-> "string", s |-> s]
NullVec == <<>>
Arr(a) == [tag |-> "array", a |-> a]
Bool(b) == [tag |-> "boolean", b |-> b]

\* obj[k] for an object given as a function from its own keys
PropGet(obj, k) == IF k \in DOMAIN obj THEN obj[k] ELSE Undefined

\* obj[k] = v
PropSet(obj, k, v) == [x \in (DOMAIN obj) \cup {k} |-> IF x = k THEN v ELSE obj[x]]

\* The properties of Object.prototype among the names of the model, and
\* the value such a property has (a built-in function).
ObjectPrototype == {"constructor"}
ProtoValue(k) == [tag |-> "function", name |-> k]

\* _def_material(): the default material
_def_material ==
  [tag |-> "object", Ka |-> <<1, 1, 1>>, Kd |-> <<1, 1, 1>>, Ks |-> <<1, 1, 1>>,
   d |-> 1, Ns |-> 10]

\* The material that "newmtl name" creates in the file url: the default
\* material with its name; the field file stands for the values that the
\* lines of that file then assign to it.
NewMaterial(url, name) ==
  [tag |-> "object", Ka |-> <<1, 1, 1>>, Kd |-> <<1, 1, 1>>, Ks |-> <<1, 1, 1>>,
   d |-> 1, Ns |-> 10, name |-> name, file |-> url]

\* The materials object that mtl_loader builds from a file that defines
\* the materials keys.
Materials(url, keys) == [tag |-> "object", file |-> url, keys |-> keys]

\* "name in materials": own keys and inherited ones
HasProperty(materials, name) ==
  name \in materials.keys \/ name \in ObjectPrototype

\* materials[name], for a name with HasProperty
GetMaterial(materials, name) ==
  IF name \in materials.keys THEN NewMaterial(materials.file, name)
  ELSE ProtoValue(name)

VARIABLES
  pc,            \* "sent": the OBJ request is out; "parsing": inside obj_loader;
                 \* "parsed": obj_loader returned; "failed": the request failed
  vs, vns, vts,  \* the v, vn and vt entries read so far
  verts, normals, texCoords, inds, map,   \* the indexed output and get_idx's map
  missingNormal, hasTexCoord,
  objs,          \* the object list
  cur_mtl,       \* the current material name
  mtls,          \* the elements of the array mtls
  mtls_props,    \* the named properties set on the array mtls
  loaded_mtls,
  loads,         \* one entry per call of load_mtl
  ondone_calls, onerror_calls,
  threw,         \* a handler ended with an uncaught exception
  last,          \* history: the face line that the latest step of obj_loader
                 \* processed, NoFace when that step processed no face line
  lim,           \* the bounds in force on the file's lines (never changes)
  call           \* outside the loader: the call of a mesh function (its
                 \* arguments and, once it returned, its result) or the state
                 \* of the page after init; NoCall in the loader

vars == <<pc, vs, vns, vts, verts, normals, texCoords, inds, map, missingNormal,
          hasTexCoord, objs, cur_mtl, mtls, mtls_props, loaded_mtls, loads,
          ondone_calls, onerror_calls, threw, last, lim, call>>

geom == <<vs, vns, vts, verts, normals, texCoords, inds, map, missingNormal,
          hasTexCoord, lim, call>>
mats == <<mtls, mtls_props, loaded_mtls, loads>>
\* every variable of the loader
loader == <<pc, vs, vns, vts, verts, normals, texCoords, inds, map, missingNormal,
            hasTexCoord, objs, cur_mtl, mtls, mtls_props, loaded_mtls, loads,
            ondone_calls, onerror_calls, threw, last, lim>>
outs == <<ondone_calls, onerror_calls, threw>>

NoFace == [tag |-> "none"]
NoCall == [fn |-> "none"]

\* load_obj: the request is sent; obj_loader's variables as it declares them
InitLoader(limits) ==
  /\ lim = limits
  /\ pc = "sent"
  /\ vs = <<>> /\ vns = <<>> /\ vts = <<>>
  /\ verts = <<>> /\ normals = <<>> /\ texCoords = Arr(<<>>) /\ inds = <<>>
  /\ map = <<>>
  /\ missingNormal = FALSE /\ hasTexCoord = FALSE
  /\ objs = <<>>
  /\ cur_mtl = Null
  /\ mtls = <<>> /\ mtls_props = <<>> /\ loaded_mtls = 0
  /\ loads = <<>>
  /\ ondone_calls = 0 /\ onerror_calls = 0 /\ threw = FALSE
  /\ last = NoFace

InitWith(limits) == InitLoader(limits) /\ call = NoCall

\* Spec reads files with one vertex, whose faces all are "f 1 1 1"
Init == InitWith([vs |-> 1, vts |-> 0, vns |-> 0, faces |-> MaxFaces])

(***************************************************************************)
(* finish_materials                                                        *)
(***************************************************************************)
Last(s) == s[Len(s)]
Front(s) == SubSeq(s, 1, Len(s) - 1)

\* The scan "for (k = mc.length-1; k >= 0 && (mtls[mc[k]] === null ||
\* !(part.material in mtls[mc[k]])); k--)", entered at the 1-based position k.
\* Result: the position it stops at, 0 when it runs off the front, and -1
\* when "in" is applied to undefined, which throws a TypeError.
RECURSIVE Lookup(_, _, _, _)
Lookup(props, mc, name, k) ==
  IF k = 0 THEN 0
  ELSE LET lib == PropGet(props, mc[k]) IN
       IF lib = Null THEN Lookup(props, mc, name, k - 1)
       ELSE IF lib = Undefined THEN -1
       ELSE IF ~HasProperty(lib, name) THEN Lookup(props, mc, name, k - 1)
       ELSE k

PartThrows(props, part) ==
  /\ part.material # Null
  /\ Lookup(props, part.material_context, part.material.s,
            Len(part.material_context)) = -1

\* The material finish_materials assigns to a part that does not throw
ResolvedMaterial(props, part) ==
  IF part.material = Null THEN _def_material
  ELSE LET mc == part.material_context
           k == Lookup(props, mc, part.material.s, Len(mc))
       IN IF k = 0 THEN _def_material
          ELSE GetMaterial(PropGet(props, mc[k]), part.material.s)

\* The part after "part.material = ...; delete part.material_context"
ResolvePart(props, part) ==
  [f \in (DOMAIN part) \ {"material_context"} |->
     IF f = "material" THEN ResolvedMaterial(props, part) ELSE part[f]]

\* No part up to part j of object i (in the loops' order) throws
NoThrowUpTo(props, os, i, j) ==
  \A i2 \in 1..i : \A j2 \in 1..Len(os[i2].parts) :
    (i2 < i \/ j2 <= j) => ~PartThrows(props, os[i2].parts[j2])

\* finish_materials() run on the object list os with the properties props
\* of mtls: it ends in ondone, or in the TypeError of a part that throws.
finish_materials(props, os) ==
  LET ok == \A i \in 1..Len(os) : \A j \in 1..Len(os[i].parts) :
              ~PartThrows(props, os[i].parts[j])
  IN /\ objs' = [i \in 1..Len(os) |->
                  [os[i] EXCEPT !.parts =
                    [j \in 1..Len(os[i].parts) |->
                       IF NoThrowUpTo(props, os, i, j)
                       THEN ResolvePart(props, os[i].parts[j])
                       ELSE os[i].parts[j]]]]
     /\ ondone_calls' = IF ok THEN ondone_calls + 1 ELSE ondone_calls
     /\ threw' = (threw \/ ~ok)

(***************************************************************************)
(* load_obj: the request and the lines mtllib, usemtl and o                *)
(***************************************************************************)
\* The OBJ file arrives: obj_loader starts and pushes the unnamed object
ObjLoaded ==
  /\ pc = "sent"
  /\ pc' = "parsing"
  /\ objs' = <<[name |-> Null,
                parts |-> <<[start |-> 0, material |-> cur_mtl,
                             material_context |-> <<>>]>>]>>
  /\ UNCHANGED <<geom, last, mats, outs, cur_mtl>>

\* ObjError with the loader registered for the error event as well
ObjErrorThenLoader ==
  /\ pc = "sent"
  /\ pc' = "parsing"
  /\ onerror_calls' = onerror_calls + 1
  /\ objs' = <<[name |-> Null,
                parts |-> <<[start |-> 0, material |-> cur_mtl,
                             material_context |-> <<>>]>>]>>
  /\ UNCHANGED <<geom, last, mats, cur_mtl, ondone_calls, threw>>

\* The OBJ request fails: onerror
ObjError ==
  /\ pc = "sent"
  /\ pc' = "failed"
  /\ onerror_calls' = onerror_calls + 1
  /\ UNCHANGED <<geom, last, mats, objs, cur_mtl, ondone_calls, threw>>

IndexOf(s, x) == IF \E i \in 1..Len(s) : s[i] = x
                 THEN (CHOOSE i \in 1..Len(s) : s[i] = x /\ \A j \in 1..(i - 1) : s[j] # x) - 1
                 ELSE -1

\* ShouldLoad without the indexOf test
ShouldLoadAlways(ms, mtl) == TRUE

\* "mtls.indexOf(mtl) === -1": the library is not yet in mtls
ShouldLoad(ms, mtl) == IndexOf(ms, mtl) = -1

\* load_mtl(url, ...): the request for the library is sent
NewLoad(url) == [url |-> url, st |-> "sent", needed_txts |-> 0, loaded_txts |-> 0,
                 materials |-> Undefined]

\* The loop over the arguments of a mtllib line, from argument j on:
\* the pair <<mtls, loads>> it leaves
RECURSIVE MtllibLoop(_, _, _, _)
MtllibLoop(args, j, ms, ls) ==
  IF j > Len(args) THEN <<ms, ls>>
  ELSE MtllibLoop(args, j + 1, Append(ms, args[j]),
                  IF ShouldLoad(ms, args[j]) THEN Append(ls, NewLoad(args[j])) ELSE ls)

Mtllib(args) ==
  /\ pc = "parsing"
  /\ Len(mtls) + Len(args) <= MaxMtls
  /\ LET r == MtllibLoop(args, 1, mtls, loads) IN
       /\ mtls' = r[1]
       /\ loads' = r[2]
  /\ last' = NoFace
  /\ UNCHANGED <<pc, geom, objs, cur_mtl, mtls_props, loaded_mtls, outs>>

\* ClosedParts without the pop of an empty part
ClosedPartsKeepEmpty(parts, ni) ==
  [parts EXCEPT ![Len(parts)] =
     [f \in (DOMAIN Last(parts)) \cup {"count"} |->
        IF f = "count" THEN ni - Last(parts).start ELSE Last(parts)[f]]]

\* The parts of the last object with the last part closed at index ni:
\* popped when it is empty, given its count otherwise
ClosedParts(parts, ni) ==
  IF ni = Last(parts).start THEN Front(parts)
  ELSE [parts EXCEPT ![Len(parts)] =
          [f \in (DOMAIN Last(parts)) \cup {"count"} |->
             IF f = "count" THEN ni - Last(parts).start ELSE Last(parts)[f]]]

NewPart(ni, mtl, ms) == [start |-> ni, material |-> mtl, material_context |-> ms]

Usemtl(args) ==
  /\ pc = "parsing"
  /\ IF Len(args) # 1
     THEN UNCHANGED <<objs, cur_mtl>>
     ELSE LET ni == Len(inds)
              parts == Last(objs).parts
          IN /\ cur_mtl' = Str(args[1])
             /\ objs' = [objs EXCEPT ![Len(objs)].parts =
                           Append(ClosedParts(parts, ni), NewPart(ni, Str(args[1]), mtls))]
  /\ last' = NoFace
  /\ UNCHANGED <<pc, geom, mats, outs>>

\* ClosedObjs without the pop of an object whose only part is empty
ClosedObjsKeepObject(os, ni) ==
  [os EXCEPT ![Len(os)].parts = ClosedParts(Last(os).parts, ni)]

\* The object list with its last object closed at index ni: the last part
\* popped when it is empty, and the object with it when that was its only part
ClosedObjs(os, ni) ==
  LET parts == Last(os).parts IN
  IF ni = Last(parts).start /\ Len(parts) = 1 THEN Front(os)
  ELSE [os EXCEPT ![Len(os)].parts = ClosedParts(parts, ni)]

O(args) ==
  /\ pc = "parsing"
  /\ IF Len(args) # 1
     THEN UNCHANGED objs
     ELSE LET ni == Len(inds) IN
          objs' = Append(ClosedObjs(objs, ni),
                         [name |-> Str(args[1]),
                          parts |-> <<NewPart(ni, cur_mtl, mtls)>>])
  /\ last' = NoFace
  /\ UNCHANGED <<pc, geom, mats, outs, cur_mtl>>

(***************************************************************************)
(* load_obj: the lines v, vn, vt and f                                     *)
(***************************************************************************)
\* v x y z [w]: args are the numbers of the line
V(args) ==
  /\ pc = "parsing"
  /\ last' = NoFace
  /\ IF Len(args) < 3 \/ Len(args) > 4
     THEN UNCHANGED vs
     ELSE /\ Len(vs) < lim.vs
          /\ vs' = Append(vs, <<args[1], args[2], args[3]>>)
  /\ UNCHANGED <<pc, vns, vts, verts, normals, texCoords, inds, map, missingNormal,
                 hasTexCoord, lim, call, objs, cur_mtl, mats, outs>>

\* vn x y z
Vn(args) ==
  /\ pc = "parsing"
  /\ last' = NoFace
  /\ IF Len(args) # 3
     THEN UNCHANGED vns
     ELSE /\ Len(vns) < lim.vns
          /\ vns' = Append(vns, <<args[1], args[2], args[3]>>)
  /\ UNCHANGED <<pc, vs, vts, verts, normals, texCoords, inds, map, missingNormal,
                 hasTexCoord, lim, call, objs, cur_mtl, mats, outs>>

\* vt u v [w]
Vt(args) ==
  /\ pc = "parsing"
  /\ last' = NoFace
  /\ IF Len(args) < 2 \/ Len(args) > 3
     THEN UNCHANGED vts
     ELSE /\ Len(vts) < lim.vts
          /\ vts' = Append(vts, <<args[1], args[2]>>)
  /\ UNCHANGED <<pc, vs, vns, verts, normals, texCoords, inds, map, missingNormal,
                 hasTexCoord, lim, call, objs, cur_mtl, mats, outs>>

\* A corner of a face line, by the one regular expression of types it
\* matches (0: v, 1: v/t, 2: v//n, 3: v/t/n), with its numbers; type 4 is a
\* token that matches none of them.
Cv(v) == [type |-> 0, v |-> v]
Cvt(v, t) == [type |-> 1, v |-> v, t |-> t]
Cvn(v, n) == [type |-> 2, v |-> v, n |-> n]
Cvtn(v, t, n) == [type |-> 3, v |-> v, t |-> t, n |-> n]
BadCorner == [type |-> 4]

\* types[t].test(arg)
Test(t, arg) == arg.type = t

\* Adjust without the branch for negative indices
AdjustPositiveOnly(k, L) == k - 1

\* "if (k < 0) { k += L; } else { k -= 1; }"
Adjust(k, L) == IF k < 0 THEN k + L ELSE k - 1

\* The negation of "k < 0 || k >= L"
InRange(k, L) == ~(k < 0 \/ k >= L)

\* A corner with its indices adjusted
Adjusted(c, hasT, hasN) ==
  [f \in (DOMAIN c) \ {"type"} |->
     IF f = "v" THEN Adjust(c.v, Len(vs))
     ELSE IF f = "t" THEN (IF hasT THEN Adjust(c.t, Len(vts)) ELSE c.t)
     ELSE (IF hasN THEN Adjust(c.n, Len(vns)) ELSE c.n)]

\* The negation of the "Check for valid face" condition, for one corner
ValidCorner(c, hasT, hasN) ==
  /\ InRange(c.v, Len(vs))
  /\ hasT => InRange(c.t, Len(vts))
  /\ hasN => InRange(c.n, Len(vns))

\* get_idx's key: v, then t unless it is null, then n unless it is null
\* (t is never undefined, so the second test of the n clause never decides)
Key(v, t, n) == <<v, IF t = NullVec THEN <<>> ELSE t, IF n = NullVec THEN <<>> ELSE n>>

\* get_idx without the push to normals
get_idxNoNormal(g, v, t, n) ==
  LET s == Key(v, t, n) IN
  IF s \notin DOMAIN g.map
  THEN [g |-> [map |-> PropSet(g.map, s, Len(g.verts)),
               verts |-> Append(g.verts, v),
               texCoords |-> Append(g.texCoords, t),
               normals |-> g.normals],
        idx |-> Len(g.verts)]
  ELSE [g |-> g, idx |-> g.map[s]]

\* get_idx without the lookup in map
get_idxAlways(g, v, t, n) ==
  [g |-> [map |-> PropSet(g.map, Key(v, t, n), Len(g.verts)),
          verts |-> Append(g.verts, v),
          texCoords |-> Append(g.texCoords, t),
          normals |-> Append(g.normals, n)],
   idx |-> Len(g.verts)]

\* get_idx(v, t, n) on g = [map, verts, texCoords, normals]: the new g and
\* the index returned
get_idx(g, v, t, n) ==
  LET s == Key(v, t, n) IN
  IF s \notin DOMAIN g.map
  THEN [g |-> [map |-> PropSet(g.map, s, Len(g.verts)),
               verts |-> Append(g.verts, v),
               texCoords |-> Append(g.texCoords, t),
               normals |-> Append(g.normals, n)],
        idx |-> Len(g.verts)]
  ELSE [g |-> g, idx |-> g.map[s]]

\* The type of a face line: the first regular expression its first corner
\* matches, 4 when there is none
FaceType(arg) == IF \E t \in 0..3 : Test(t, arg)
                 THEN CHOOSE t \in 0..3 : Test(t, arg) /\ \A u \in 0..(t - 1) : ~Test(u, arg)
                 ELSE 4

\* The three get_idx calls of "inds.push(get_idx(..), get_idx(..), get_idx(..))"
\* on g, for the corners given as <<v, t, n>>: the new g and the three indices
PushFace(g, ca, cb, cc) ==
  LET r == CHOOSE r \in {get_idx(g, ca[1], ca[2], ca[3])} : TRUE IN
  LET q == CHOOSE q \in {get_idx(r.g, cb[1], cb[2], cb[3])} : TRUE IN
  LET p == CHOOSE p \in {get_idx(q.g, cc[1], cc[2], cc[3])} : TRUE IN
  [g |-> p.g, idx |-> <<r.idx, q.idx, p.idx>>]

\* F with the two flags set before the check for a valid face
FFlagsFirst(args) ==
  /\ pc = "parsing"
  /\ Len(inds) < 3 * lim.faces
  /\ LET t == IF Len(args) >= 1 THEN FaceType(args[1]) ELSE 4
         formed == Len(args) = 3 /\ t # 4 /\ Test(t, args[2]) /\ Test(t, args[3])
         hasT == t = 1 \/ t = 3
         hasN == t = 2 \/ t = 3
         a == Adjusted(args[1], hasT, hasN)
         b == Adjusted(args[2], hasT, hasN)
         c == Adjusted(args[3], hasT, hasN)
         valid == formed /\ ValidCorner(a, hasT, hasN) /\ ValidCorner(b, hasT, hasN)
                         /\ ValidCorner(c, hasT, hasN)
         vt(x) == IF hasT THEN vts[x.t + 1] ELSE NullVec
         vn(x) == IF hasN THEN vns[x.n + 1] ELSE NullVec
         corner(x) == <<vs[x.v + 1], vt(x), vn(x)>>
     IN IF ~valid
        THEN /\ last' = [tag |-> "face", args |-> args, accepted |-> FALSE,
                         nv |-> Len(vs), nt |-> Len(vts), nn |-> Len(vns)]
             /\ hasTexCoord' = (hasTexCoord \/ (formed /\ hasT))
             /\ missingNormal' = (missingNormal \/ (formed /\ ~hasN))
             /\ UNCHANGED <<verts, normals, texCoords, inds, map>>
        ELSE \E r \in {PushFace([map |-> map, verts |-> verts,
                                 texCoords |-> texCoords.a, normals |-> normals],
                                corner(a), corner(b), corner(c))} :
             /\ last' = [tag |-> "face", args |-> args, accepted |-> TRUE,
                         nv |-> Len(vs), nt |-> Len(vts), nn |-> Len(vns),
                         res |-> <<a, b, c>>,
                         tri |-> <<vs[a.v + 1], vs[b.v + 1], vs[c.v + 1]>>,
                         idx |-> r.idx]
             /\ hasTexCoord' = (hasTexCoord \/ hasT)
             /\ missingNormal' = (missingNormal \/ ~hasN)
             /\ inds' = inds \o r.idx
             /\ map' = r.g.map
             /\ verts' = r.g.verts
             /\ texCoords' = Arr(r.g.texCoords)
             /\ normals' = r.g.normals
  /\ UNCHANGED <<pc, vs, vns, vts, lim, call, objs, cur_mtl, mats, outs>>

\* f a b c
F(args) ==
  /\ pc = "parsing"
  /\ Len(inds) < 3 * lim.faces
  /\ LET t == IF Len(args) >= 1 THEN FaceType(args[1]) ELSE 4
         formed == Len(args) = 3 /\ t # 4 /\ Test(t, args[2]) /\ Test(t, args[3])
         hasT == t = 1 \/ t = 3
         hasN == t = 2 \/ t = 3
         a == Adjusted(args[1], hasT, hasN)
         b == Adjusted(args[2], hasT, hasN)
         c == Adjusted(args[3], hasT, hasN)
         valid == formed /\ ValidCorner(a, hasT, hasN) /\ ValidCorner(b, hasT, hasN)
                         /\ ValidCorner(c, hasT, hasN)
         vt(x) == IF hasT THEN vts[x.t + 1] ELSE NullVec
         vn(x) == IF hasN THEN vns[x.n + 1] ELSE NullVec
         corner(x) == <<vs[x.v + 1], vt(x), vn(x)>>
     IN IF ~valid
        THEN /\ last' = [tag |-> "face", args |-> args, accepted |-> FALSE,
                         nv |-> Len(vs), nt |-> Len(vts), nn |-> Len(vns)]
             /\ UNCHANGED <<verts, normals, texCoords, inds, map, missingNormal,
                            hasTexCoord>>
        ELSE \E r \in {PushFace([map |-> map, verts |-> verts,
                                 texCoords |-> texCoords.a, normals |-> normals],
                                corner(a), corner(b), corner(c))} :
             /\ last' = [tag |-> "face", args |-> args, accepted |-> TRUE,
                         nv |-> Len(vs), nt |-> Len(vts), nn |-> Len(vns),
                         res |-> <<a, b, c>>,
                         tri |-> <<vs[a.v + 1], vs[b.v + 1], vs[c.v + 1]>>,
                         idx |-> r.idx]
             /\ hasTexCoord' = (hasTexCoord \/ hasT)
             /\ missingNormal' = (missingNormal \/ ~hasN)
             /\ inds' = inds \o r.idx
             /\ map' = r.g.map
             /\ verts' = r.g.verts
             /\ texCoords' = Arr(r.g.texCoords)
             /\ normals' = r.g.normals
  /\ UNCHANGED <<pc, vs, vns, vts, lim, call, objs, cur_mtl, mats, outs>>

\* Any other command: a warning
Unknown ==
  /\ pc = "parsing"
  /\ last' = NoFace
  /\ UNCHANGED <<pc, geom, objs, cur_mtl, mats, outs>>

(***************************************************************************)
(* Vectors (MV.js) and _calc_normals                                       *)
(***************************************************************************)
subtract(u, v) == <<u[1] - v[1], u[2] - v[2], u[3] - v[3]>>
add(u, v) == <<u[1] + v[1], u[2] + v[2], u[3] + v[3]>>
cross(u, v) == <<u[2] * v[3] - u[3] * v[2], u[3] * v[1] - u[1] * v[3],
                 u[1] * v[2] - u[2] * v[1]>>

Abs(x) == IF x < 0 THEN -x ELSE x
RECURSIVE Gcd(_, _)
Gcd(a, b) == IF b = 0 THEN a ELSE Gcd(b, a % b)

\* normalize(u): the unit vector along u, kept as the shortest integer
\* vector of that direction followed by 1; the vector of length 0 has no
\* direction and gives <<0, 0, 0, 0>>.
normalize(u) ==
  LET g == Gcd(Gcd(Abs(u[1]), Abs(u[2])), Abs(u[3])) IN
  IF g = 0 THEN <<0, 0, 0, 0>>
  ELSE <<u[1] \div g, u[2] \div g, u[3] \div g, 1>>

\* _calc_loop that adds the face vector to the first vertex only
RECURSIVE _calc_loopFirstOnly(_, _, _, _)
_calc_loopFirstOnly(vv, ii, i, acc) ==
  IF ~(i < Len(ii) - 2) THEN acc
  ELSE LET j == ii[i + 1]
           k == ii[i + 2]
           l == ii[i + 3]
       IN IF j = k \/ k = l \/ l = j THEN _calc_loopFirstOnly(vv, ii, i + 3, acc)
          ELSE LET face_norm == cross(subtract(vv[k + 1], vv[j + 1]),
                                      subtract(vv[j + 1], vv[l + 1]))
               IN _calc_loopFirstOnly(vv, ii, i + 3,
                                      [acc EXCEPT ![j + 1] = add(@, face_norm)])

\* The accumulation loop of _calc_normals from position i (0-based) on
RECURSIVE _calc_loop(_, _, _, _)
_calc_loop(vv, ii, i, acc) ==
  IF ~(i < Len(ii) - 2) THEN acc
  ELSE LET j == ii[i + 1]
           k == ii[i + 2]
           l == ii[i + 3]
       IN IF j = k \/ k = l \/ l = j THEN _calc_loop(vv, ii, i + 3, acc)
          ELSE LET a == vv[j + 1]
                   b == vv[k + 1]
                   c == vv[l + 1]
                   face_norm == cross(subtract(b, a), subtract(a, c))
                   acc1 == [acc EXCEPT ![j + 1] = add(@, face_norm)]
                   acc2 == [acc1 EXCEPT ![k + 1] = add(@, face_norm)]
                   acc3 == [acc2 EXCEPT ![l + 1] = add(@, face_norm)]
               IN _calc_loop(vv, ii, i + 3, acc3)

_calc_normals(vv, ii) ==
  LET acc == _calc_loop(vv, ii, 0, [i \in 1..Len(vv) |-> <<0, 0, 0>>])
  IN [i \in 1..Len(vv) |-> normalize(acc[i])]

(***************************************************************************)
(* calc_normals                                                            *)
(***************************************************************************)
\* ensure_vec4(v, last) throws
ensure_vec4Throws(v, last_) == Len(v) # 3 /\ (Len(v) # 4 \/ v[4] # last_)

\* ensure_vec4(v, last) when it does not throw
ensure_vec4(v, last_) == IF Len(v) = 3 THEN v \o <<last_>> ELSE v

\* skip.sort() that leaves the order as it is
SortNone(s) == s

\* skip.sort(function (a, b) { return a - b; })
RECURSIVE Sort(_)
Sort(s) ==
  IF s = <<>> THEN <<>>
  ELSE LET m == CHOOSE i \in 1..Len(s) :
                  /\ \A j \in 1..Len(s) : s[i] <= s[j]
                  /\ \A j \in 1..(i - 1) : s[j] # s[i]
       IN <<s[m]>> \o Sort(SubSeq(s, 1, m - 1) \o SubSeq(s, m + 1, Len(s)))

\* inc that takes every position in both topologies
IncOne(strip) == 1

\* inc: the step of the loop
Inc(strip) == IF strip THEN 1 ELSE 3

\* The three additions without the one to the third vertex
AddFaceTwo(acc, j, k, l, face_norm) ==
  LET acc1 == [acc EXCEPT ![j + 1] = add(@, face_norm)]
  IN [acc1 EXCEPT ![k + 1] = add(@, face_norm)]

\* normals[j], normals[k], normals[l] = add(normals[.], face_norm)
AddFace(acc, j, k, l, face_norm) ==
  LET acc1 == [acc EXCEPT ![j + 1] = add(@, face_norm)]
      acc2 == [acc1 EXCEPT ![k + 1] = add(@, face_norm)]
  IN [acc2 EXCEPT ![l + 1] = add(@, face_norm)]

\* The first edge vector without the change at odd positions
FirstEdgeSame(strip, i, a, b) == subtract(b, a)

\* (strip && (i%2) !== 0) ? subtract(a, b) : subtract(b, a)
FirstEdge(strip, i, a, b) ==
  IF strip /\ (i % 2) # 0 THEN subtract(a, b) ELSE subtract(b, a)

\* strip after the first line, with the triangle list as the default
DefaultStripList(strip) == strip = Bool(TRUE)

\* if (strip !== true && strip !== false) { strip = true; }
DefaultStrip(strip) ==
  IF strip # Bool(TRUE) /\ strip # Bool(FALSE) THEN TRUE ELSE strip.b

\* The accumulation loop of calc_normals from position i (0-based) on, with
\* skip the sorted copy that ends with -1.  st.normals are the accumulators;
\* st.threw: ensure_vec4 threw, which ends the call.  The rest of st is
\* history: st.examined, the positions for which the loop's body ran;
\* st.omitted, those at which it took the skip test's continue; st.added,
\* those at which it added a face vector; st.faces, each of the latter with
\* its face vector.
RECURSIVE calc_loop(_, _, _, _, _, _, _)
calc_loop(vv, ii, strip, skip, i, skipInd, st0) ==
  IF ~(i < Len(ii) - 2) THEN st0
  ELSE LET st == [st0 EXCEPT !.examined = @ \cup {i}] IN
       IF i = skip[skipInd + 1]
       THEN calc_loop(vv, ii, strip, skip, i + Inc(strip), skipInd + 1,
                      [st EXCEPT !.omitted = @ \cup {i}])
       ELSE LET j == ii[i + 1]
                k == ii[i + 2]
                l == ii[i + 3]
            IN IF j = k \/ k = l \/ l = j
               THEN calc_loop(vv, ii, strip, skip, i + Inc(strip), skipInd, st)
               ELSE IF \E x \in {j, k, l} : ensure_vec4Throws(vv[x + 1], 1)
                    THEN [st EXCEPT !.threw = TRUE]
                    ELSE LET a == ensure_vec4(vv[j + 1], 1)
                             b == ensure_vec4(vv[k + 1], 1)
                             c == ensure_vec4(vv[l + 1], 1)
                             face_norm ==
                               cross(FirstEdge(strip, i, a, b), subtract(a, c))
                         IN calc_loop(vv, ii, strip, skip, i + Inc(strip), skipInd,
                                      [st EXCEPT
                                         !.normals = AddFace(@, j, k, l, face_norm),
                                         !.added = @ \cup {i},
                                         !.faces = @ \cup {<<i, face_norm>>}])

\* calc_normals(verts, inds, strip, skip): ret is the value returned when
\* threw is FALSE, acc the accumulators before the normalization
calc_normals(vv, ii, strip, skip) ==
  LET strip1 == DefaultStrip(strip)
      skip1 == Append(Sort(IF skip = Undefined THEN <<>> ELSE skip.a), -1)
      st == CHOOSE r \in {calc_loop(vv, ii, strip1, skip1, 0, 0,
                                    [normals |-> [i \in 1..Len(vv) |-> <<0, 0, 0, 0>>],
                                     examined |-> {}, omitted |-> {},
                                     added |-> {}, faces |-> {},
                                     threw |-> FALSE])} : TRUE
  IN [ret |-> [i \in 1..Len(vv) |-> normalize(st.normals[i])],
      acc |-> st.normals, examined |-> st.examined, omitted |-> st.omitted,
      added |-> st.added, faces |-> st.faces, threw |-> st.threw]

(***************************************************************************)
(* load_obj: the end of the file                                           *)
(***************************************************************************)
\* NoMaterials without the synchronous finish
NoMaterialsNever(ms) == FALSE

\* "if (mtls.length === 0)": there is no material library to wait for
NoMaterials(ms) == Len(ms) = 0

\* FillNormals that takes every computed normal
FillNormalsAll(nrm, ns) == ns

\* "if (normals[i] === null) { normals[i] = ns[i]; }" for each i
FillNormals(nrm, ns) ==
  [i \in 1..Len(nrm) |-> IF nrm[i] = NullVec THEN ns[i] ELSE nrm[i]]

\* FillTexCoords that fills nothing in
FillTexCoordsNone(tc) == tc

\* "if (texCoords[i] === null) { texCoords[i] = vec2(0,0); }" for each i
FillTexCoords(tc) ==
  [i \in 1..Len(tc) |-> IF tc[i] = NullVec THEN <<0, 0>> ELSE tc[i]]

EndOfFile ==
  /\ pc = "parsing"
  /\ pc' = "parsed"
  /\ normals' = IF missingNormal
                THEN FillNormals(normals, _calc_normals(verts, inds))
                ELSE normals
  /\ texCoords' = IF hasTexCoord
                  THEN Arr(FillTexCoords(texCoords.a))
                  ELSE Null
  /\ IF NoMaterials(mtls)
     THEN finish_materials(mtls_props, ClosedObjs(objs, Len(inds)))
     ELSE /\ objs' = ClosedObjs(objs, Len(inds))
          /\ UNCHANGED <<ondone_calls, threw>>
  /\ last' = NoFace
  /\ UNCHANGED <<vs, vns, vts, verts, inds, map, missingNormal, hasTexCoord,
                 lim, call, cur_mtl, mats, onerror_calls>>

(***************************************************************************)
(* load_mtl and the callbacks mtl_loaded and mtl_error of load_obj         *)
(***************************************************************************)
\* AllMtlsLoaded satisfied by the first report
AllMtlsLoadedFirst(n, ms) == n >= 1

\* "++loaded_mtls === mtls.length", on the incremented counter
AllMtlsLoaded(n, ms) == n = Len(ms)

\* "needed_txts === ++loaded_txts", on the incremented counter
AllTxtsLoaded(needed, loaded) == needed = loaded

\* The key under which "mtls[mtl_name] = null" stores when mtl_name is
\* the event that the request's error listener is called with
ErrorEventKey == "[object ProgressEvent]"

\* The first argument mtl_error is called with for the library url:
\* _load_file registers it as the listener of the request's error event
MtlErrorArg(url) == ErrorEventKey

\* mtl_loaded(mtl_name, materials) and mtl_error(mtl_name) (value Null)
MtlReported(mtl_name, value) ==
  /\ mtls_props' = PropSet(mtls_props, mtl_name, value)
  /\ loaded_mtls' = loaded_mtls + 1
  /\ IF AllMtlsLoaded(loaded_mtls + 1, mtls)
     THEN finish_materials(PropSet(mtls_props, mtl_name, value), objs)
     ELSE UNCHANGED <<objs, ondone_calls, threw>>

\* What a MTL file holds: the materials it defines and the number of its
\* texture map lines.  A map line needs a material before it; the files
\* with map lines all define the one material TexturedMaterial.
TexturedMaterial == "m1"
MtlContents ==
  {[keys |-> k, txts |-> 0] : k \in SUBSET MaterialNames}
    \cup {[keys |-> {TexturedMaterial}, txts |-> n] : n \in 1..MaxTxts}

\* The library's file arrives: mtl_loader reads it and starts its images
MtlLoaded(i, content) ==
  /\ pc = "parsed"
  /\ loads[i].st = "sent"
  /\ LET materials == Materials(loads[i].url, content.keys) IN
     IF content.txts = 0
     THEN /\ loads' = [loads EXCEPT ![i].st = "done", ![i].materials = materials]
          /\ MtlReported(loads[i].url, materials)
     ELSE /\ loads' = [loads EXCEPT ![i].st = "textures", ![i].materials = materials,
                                    ![i].needed_txts = content.txts]
          /\ UNCHANGED <<mtls_props, loaded_mtls, objs, ondone_calls, threw>>
  /\ UNCHANGED <<pc, geom, last, cur_mtl, mtls, onerror_calls>>

\* The library's request fails
MtlError(i) ==
  /\ pc = "parsed"
  /\ loads[i].st = "sent"
  /\ loads' = [loads EXCEPT ![i].st = "error"]
  /\ MtlReported(MtlErrorArg(loads[i].url), Null)
  /\ UNCHANGED <<pc, geom, last, cur_mtl, mtls, onerror_calls>>

\* One of the library's images reports: the load and the error listener
\* count alike
ImgReported(i) ==
  /\ pc = "parsed"
  /\ loads[i].st = "textures"
  /\ loads[i].loaded_txts < loads[i].needed_txts
  /\ IF AllTxtsLoaded(loads[i].needed_txts, loads[i].loaded_txts + 1)
     THEN /\ loads' = [loads EXCEPT ![i].st = "done", ![i].loaded_txts = @ + 1]
          /\ MtlReported(loads[i].url, loads[i].materials)
     ELSE /\ loads' = [loads EXCEPT ![i].loaded_txts = @ + 1]
          /\ UNCHANGED <<mtls_props, loaded_mtls, objs, ondone_calls, threw>>
  /\ UNCHANGED <<pc, geom, last, cur_mtl, mtls, onerror_calls>>

ImgLoad(i) == ImgReported(i)
ImgError(i) == ImgReported(i)

(***************************************************************************)
(* The specification of the loader                                         *)
(***************************************************************************)
Seqs(S, n) == UNION {[1..k -> S] : k \in 0..n}

MtllibArgs == Seqs(MtlFiles, 2)
UsemtlArgs == {<<>>} \cup {<<m>> : m \in MaterialNames}
OArgs == {<<>>} \cup {<<o>> : o \in ObjectNames}
VArgs == {<<0, 0, 0>>, <<0, 0>>}
FArgs == {<<Cv(1), Cv(1), Cv(1)>>}

Next ==
  \/ ObjLoaded
  \/ ObjError
  \/ \E args \in MtllibArgs : Mtllib(args)
  \/ \E args \in UsemtlArgs : Usemtl(args)
  \/ \E args \in OArgs : O(args)
  \/ \E args \in VArgs : V(args)
  \/ \E args \in FArgs : F(args)
  \/ Unknown
  \/ EndOfFile
  \/ \E i \in 1..Len(loads) : \E c \in MtlContents : MtlLoaded(i, c)
  \/ \E i \in 1..Len(loads) : MtlError(i)
  \/ \E i \in 1..Len(loads) : ImgLoad(i)
  \/ \E i \in 1..Len(loads) : ImgError(i)

Spec == Init /\ [][Next]_vars

(***************************************************************************)
(* The specification of the parser alone: files without material libraries *)
(* whose v, vt, vn and f lines are drawn from larger sets                  *)
(***************************************************************************)
Coords == {<<0, 0, 0>>, <<1, 0, 0>>}
FaceVArgs == Coords \cup {<<0, 0>>, <<0, 1, 0, 1>>}
FaceVtArgs == {<<0, 1>>, <<1>>}
FaceVnArgs == {<<0, 0, 1>>, <<0, 0>>}
Idx == (-MaxIdx)..MaxIdx
FaceFArgs ==
  {<<Cv(i), Cv(j), Cv(k)>> : i \in Idx, j \in {-2, 0, 2}, k \in {-3, 1}}
    \cup {<<Cvt(1, t), Cvt(1, 1), Cvt(-1, -1)>> : t \in {-2, -1, 0, 1, 2}}
    \cup {<<Cvn(-1, -1), Cvn(1, n), Cvn(1, 1)>> : n \in {-2, -1, 0, 1, 2}}
    \cup {<<Cvtn(-1, -1, -1), Cvtn(1, 1, 1), Cvtn(1, t, n)>> : t \in {-1, 0, 2}, n \in {-1, 2}}
    \cup {<<Cv(1), Cv(1)>>, <<Cv(1), Cv(1), Cv(1), Cv(1)>>, <<Cv(1), Cvt(1, 1), Cv(1)>>,
          <<BadCorner, Cv(1), Cv(1)>>, <<Cvn(1, 1), Cvn(1, 1), Cvtn(1, 1, 1)>>}

\* SpecFace reads files with one vt line, one vn line and f lines up to
\* the first accepted one
InitFace == InitWith([vs |-> FaceMaxVs, vts |-> 1, vns |-> 1, faces |-> 1])

NextFace ==
  \/ ObjLoaded
  \/ \E args \in FaceVArgs : V(args)
  \/ \E args \in FaceVtArgs : Vt(args)
  \/ \E args \in FaceVnArgs : Vn(args)
  \/ \E args \in FaceFArgs : F(args)
  \/ EndOfFile

SpecFace == InitFace /\ [][NextFace]_vars

(***************************************************************************)
(* The specification of the indexer: files without material libraries      *)
(* whose faces are of all four kinds, written with positive and negative   *)
(* indices, among malformed and out-of-range ones                          *)
(***************************************************************************)
MeshMaxVs == 2   \* v lines in one OBJ file (SpecMesh)

MeshVArgs == Coords
MeshVtArgs == {<<0, 1>>}
MeshVnArgs == {<<0, 0, 1>>}
MeshFArgs ==
  {<<Cv(1), Cv(2), Cv(-1)>>, <<Cv(-2), Cv(-1), Cv(1)>>,
   <<Cvt(1, 1), Cvt(2, -1), Cvt(-1, 1)>>,
   <<Cvn(-2, -1), Cvn(2, 1), Cvn(1, 1)>>,
   <<Cvtn(1, 1, 1), Cvtn(-1, -1, -1), Cvtn(-2, 1, -1)>>,
   <<Cv(1), Cv(2)>>, <<Cv(1), Cvt(2, 1), Cv(1)>>, <<Cv(1), Cv(0), Cv(2)>>,
   <<Cvt(1, 2), Cvt(1, 1), Cvt(1, 1)>>}

\* SpecMesh reads files with one vt line and one vn line
InitMesh == InitWith([vs |-> MeshMaxVs, vts |-> 1, vns |-> 1, faces |-> MaxFaces])

NextMesh ==
  \/ ObjLoaded
  \/ \E args \in MeshVArgs : V(args)
  \/ \E args \in MeshVtArgs : Vt(args)
  \/ \E args \in MeshVnArgs : Vn(args)
  \/ \E args \in MeshFArgs : F(args)
  \/ \E args \in OArgs : O(args)
  \/ EndOfFile

SpecMesh == InitMesh /\ [][NextMesh]_vars

(***************************************************************************)
(* The specification of the single triangle: files of v lines and the one  *)
(* face line "f 1 2 3"                                                     *)
(***************************************************************************)
TriCoords == {<<0, 0, 0>>, <<1, 0, 0>>, <<0, 1, 0>>}
TriFArgs == {<<Cv(1), Cv(2), Cv(3)>>}

InitTriangle == InitWith([vs |-> FaceMaxVs, vts |-> 0, vns |-> 0, faces |-> 1])

NextTriangle ==
  \/ ObjLoaded
  \/ \E args \in TriCoords : V(args)
  \/ \E args \in TriFArgs : F(args)
  \/ EndOfFile

SpecTriangle == InitTriangle /\ [][NextTriangle]_vars

(***************************************************************************)
(* The specification of the normal calculators: one call of calc_normals   *)
(* or of _calc_normals on arguments drawn from the sets below.  The        *)
(* loader's variables play no part in it.                                  *)
(***************************************************************************)
MaxInds == 6     \* entries of inds in one call

\* Arrays of four vertices: vec3s, vec4s that end in 1, and one array with a
\* vec4 that does not
NormalVerts ==
  {<<<<0, 0, 0>>, <<1, 0, 0>>, <<2, 2, 2>>, <<0, 1, 0>>>>,
   <<<<0, 0, 1, 1>>, <<0, 0, 1>>, <<1, 1, 1>>, <<1, 1, 0, 1>>>>,
   <<<<1, 0, 0>>, <<0, 2, 0, 0>>, <<0, 0, 0>>, <<0, 1, 1>>>>}
\* The indices that inds holds; no triangle touches the vertex 2
NormalIdx == {0, 1, 3}
NormalStrips == {Bool(TRUE), Bool(FALSE), Undefined}
NormalPos == 0..(MaxInds - 2)
NormalSkips ==
  {Undefined} \cup {Arr(<<>>)} \cup {Arr(<<x>>) : x \in NormalPos}
    \cup {Arr(<<x, y>>) : x, y \in NormalPos}

\* The arrays of four vertices in the plane z = 0, for the strip [0,1,2,3]
QuadPoints == {<<x, y, 0>> : x \in 0..1, y \in 0..2}
QuadVerts == [1..4 -> QuadPoints]

\* The call as it starts
NormalCall(fn, vv, ii, st, sk) ==
  [fn |-> fn, at |-> "called", verts |-> vv, inds |-> ii, strip |-> st,
   skip |-> sk, ret |-> Null]

InitNormals ==
  \/ /\ InitLoader([vs |-> 0, vts |-> 0, vns |-> 0, faces |-> 0])
     /\ \E vv \in NormalVerts, ii \in Seqs(NormalIdx, MaxInds) :
          \/ \E st \in NormalStrips, sk \in NormalSkips :
               call = NormalCall("calc_normals", vv, ii, st, sk)
          \/ call = NormalCall("_calc_normals", vv, ii, Undefined, Undefined)
  \/ /\ InitLoader([vs |-> 0, vts |-> 0, vns |-> 0, faces |-> 0])
     /\ \E vv \in QuadVerts, st \in NormalStrips :
          call = NormalCall("calc_normals", vv, <<0, 1, 2, 3>>, st, Undefined)

\* calc_normals runs and returns; it works on a copy of skip and assigns to
\* no element of verts or inds
CalcNormals ==
  /\ call.fn = "calc_normals" /\ call.at = "called"
  /\ \E r \in {calc_normals(call.verts, call.inds, call.strip, call.skip)} :
       call' = [call EXCEPT !.at = IF r.threw THEN "threw" ELSE "returned",
                            !.ret = r]
  /\ UNCHANGED loader

\* _calc_normals runs and returns
UCalcNormals ==
  /\ call.fn = "_calc_normals" /\ call.at = "called"
  /\ \E r \in {_calc_normals(call.verts, call.inds)} :
       call' = [call EXCEPT
                  !.at = "returned",
                  !.ret = [ret |-> r,
                           acc |-> _calc_loop(call.verts, call.inds, 0,
                                              [i \in 1..Len(call.verts) |-> <<0, 0, 0>>])]]
  /\ UNCHANGED loader

NextNormals == CalcNormals \/ UCalcNormals

SpecNormals == InitNormals /\ [][NextNormals]_vars

(***************************************************************************)
(* The mesh builder of the page: circle, cylinder, add_truncated_cone,     *)
(* add_circle_fill and soda_can.  A function that pushes to verts or inds  *)
(* is the operator that gives the array after its pushes.                  *)
(***************************************************************************)
vec4(x, y, z, w) == <<x, y, z, w>>

\* The vertex that circle pushes for i: the point at the angle i*theta of
\* the circle of radius r around (c[0], c[1]) at the height c[2]
CirclePoint(c, r, n, i) == [x0 |-> c[1], y |-> c[3], z0 |-> c[2], r |-> r, i |-> i, n |-> n]

RECURSIVE circle_loop(_, _, _, _, _)
circle_loop(c, r, n, vv, i) ==
  IF ~(i < n) THEN vv
  ELSE circle_loop(c, r, n, Append(vv, CirclePoint(c, r, n, i)), i + 1)

circle(c, r, n, vv) == circle_loop(c, r, n, vv, 0)

RECURSIVE cylinder_loop(_, _, _, _)
cylinder_loop(n, offset, ii, i) ==
  IF ~(i < n) THEN ii
  ELSE cylinder_loop(n, offset, ii \o <<i + offset, i + n + offset>>, i + 1)

\* cylinder without the index that ends the strip
cylinderOpen(c, r, n, h, vv, ii) ==
  LET offset == Len(vv)
      vv1 == circle(vec4(c[1], c[2], h, 0), r, n, vv)
      vv2 == circle(vec4(c[1], c[2], -h, 0), r, n, vv1)
      ii1 == cylinder_loop(n, offset, ii, 0)
  IN [verts |-> vv2, inds |-> ii1 \o <<offset, offset + n>>]

cylinder(c, r, n, h, vv, ii) ==
  LET offset == Len(vv)
      vv1 == circle(vec4(c[1], c[2], h, 0), r, n, vv)
      vv2 == circle(vec4(c[1], c[2], -h, 0), r, n, vv1)
      ii1 == cylinder_loop(n, offset, ii, 0)
  IN [verts |-> vv2, inds |-> ii1 \o <<offset, offset + n, offset + n>>]

\* The loop of add_truncated_cone with both indices on the ring mult_1
RECURSIVE cone_loopSameRing(_, _, _, _, _, _)
cone_loopSameRing(mult_1, mult_2, n, offset, ii, i) ==
  IF ~(i < n) THEN ii
  ELSE cone_loopSameRing(mult_1, mult_2, n, offset,
                         ii \o <<i + mult_1 * n + offset, i + mult_1 * n + offset>>,
                         i + 1)

RECURSIVE cone_loop(_, _, _, _, _, _)
cone_loop(mult_1, mult_2, n, offset, ii, i) ==
  IF ~(i < n) THEN ii
  ELSE cone_loop(mult_1, mult_2, n, offset,
                 ii \o <<i + mult_1 * n + offset, i + mult_2 * n + offset>>, i + 1)

\* add_truncated_cone without the index pushed before the loop
add_truncated_coneNoLead(mult_1, mult_2, n, offset, ii) ==
  LET ii2 == cone_loop(mult_1, mult_2, n, offset, ii, 0)
  IN ii2 \o <<mult_1 * n + offset, mult_2 * n + offset, mult_2 * n + offset>>

add_truncated_cone(mult_1, mult_2, n, offset, ii) ==
  LET ii1 == Append(ii, mult_1 * n + offset)
      ii2 == cone_loop(mult_1, mult_2, n, offset, ii1, 0)
  IN ii2 \o <<mult_1 * n + offset, mult_2 * n + offset, mult_2 * n + offset>>

\* The loop's test with n in the place of n / 2
FillTestWhole(n, i) == i < n

\* i < n / 2
FillTest(n, i) == 2 * i < n

\* The loops of add_circle_fill with the forward order whatever reverse is
RECURSIVE fill_loopForward(_, _, _, _, _)
fill_loopForward(n, offset, ii, reverse, i) ==
  IF ~FillTest(n, i) THEN ii
  ELSE fill_loopForward(n, offset, ii \o <<i + 1 + offset, n - i - 1 + offset>>,
                        reverse, i + 1)

RECURSIVE fill_loop(_, _, _, _, _)
fill_loop(n, offset, ii, reverse, i) ==
  IF ~FillTest(n, i) THEN ii
  ELSE fill_loop(n, offset,
                 IF reverse # Bool(TRUE)
                 THEN ii \o <<i + 1 + offset, n - i - 1 + offset>>
                 ELSE ii \o <<n - i - 1 + offset, i + 1 + offset>>,
                 reverse, i + 1)

add_circle_fill(n, offset, ii, reverse) ==
  fill_loop(n, offset, ii \o <<offset, offset>>, reverse, 0)

soda_can(c, r1, r2, n, h, vv, ii) ==
  LET offset == Len(vv)
      vv1 == circle(vec4(c[1], c[2], h, 0), r2, n, vv)
      cyl == cylinder(c, r1, n, h - 2 * (r1 - r2), vv1, ii)
      vv2 == circle(vec4(c[1], c[2], -h, 0), r2, n, cyl.verts)
      ii1 == add_truncated_cone(0, 1, n, offset, cyl.inds)
      ii2 == add_truncated_cone(2, 3, n, offset, ii1)
      ii3 == add_circle_fill(n, offset, ii2, Undefined)
  IN [verts |-> vv2, inds |-> add_circle_fill(n, offset + 3 * n, ii3, Bool(TRUE))]

(***************************************************************************)
(* The specification of the mesh builder: one call of soda_can on verts    *)
(* and inds that may hold a mesh already                                   *)
(***************************************************************************)
MaxSides == 12   \* the side count n
MaxOffset == 4   \* vertices in verts before the call

CanSides == 0..MaxSides
\* verts before the call: k vertices of an earlier mesh, and the inds of it
CanVerts == {[i \in 1..k |-> CirclePoint(<<0, 0, 0>>, 1, k, i - 1)] : k \in 0..MaxOffset}
CanInds(vv) == {<<>>} \cup {[i \in 1..Len(vv) |-> i - 1]}
CanRadii == {<<3, 2>>, <<2, 2>>}

CanMults == {<<0, 1>>, <<2, 3>>, <<1, 2>>, <<1, 0>>}
CanReverses == {Undefined, Bool(TRUE), Bool(FALSE)}

\* The call is one of soda_can, cylinder, add_truncated_cone and
\* add_circle_fill.  The last two have no parameter verts: the field verts
\* is the caller's array.
InitCan ==
  /\ InitLoader([vs |-> 0, vts |-> 0, vns |-> 0, faces |-> 0])
  /\ \E n \in CanSides, vv \in CanVerts :
       \E ii \in CanInds(vv) :
         \/ \E rr \in CanRadii :
              call = [fn |-> "soda_can", at |-> "called", c |-> <<0, 0>>,
                      r1 |-> rr[1], r2 |-> rr[2], n |-> n, h |-> 5, verts |-> vv,
                      inds |-> ii]
         \/ call = [fn |-> "cylinder", at |-> "called", c |-> <<0, 0>>, r |-> 3,
                    n |-> n, h |-> 5, verts |-> vv, inds |-> ii]
         \/ \E m \in CanMults, offset \in 0..MaxOffset :
              call = [fn |-> "add_truncated_cone", at |-> "called", mult_1 |-> m[1],
                      mult_2 |-> m[2], n |-> n, offset |-> offset, verts |-> vv,
                      inds |-> ii]
         \/ \E reverse \in CanReverses, offset \in 0..MaxOffset :
              call = [fn |-> "add_circle_fill", at |-> "called", n |-> n,
                      offset |-> offset, reverse |-> reverse, verts |-> vv,
                      inds |-> ii]

\* soda_can runs and returns
SodaCan ==
  /\ call.fn = "soda_can" /\ call.at = "called"
  /\ \E r \in {soda_can(call.c, call.r1, call.r2, call.n, call.h, call.verts,
                        call.inds)} :
       call' = [call EXCEPT !.at = "returned", !.verts = r.verts, !.inds = r.inds]
  /\ UNCHANGED loader

\* cylinder runs and returns
Cylinder ==
  /\ call.fn = "cylinder" /\ call.at = "called"
  /\ \E r \in {cylinder(call.c, call.r, call.n, call.h, call.verts, call.inds)} :
       call' = [call EXCEPT !.at = "returned", !.verts = r.verts, !.inds = r.inds]
  /\ UNCHANGED loader

\* add_truncated_cone runs and returns
AddTruncatedCone ==
  /\ call.fn = "add_truncated_cone" /\ call.at = "called"
  /\ call' = [call EXCEPT
                !.at = "returned",
                !.inds = add_truncated_cone(call.mult_1, call.mult_2, call.n,
                                            call.offset, call.inds)]
  /\ UNCHANGED loader

\* add_circle_fill runs and returns
AddCircleFill ==
  /\ call.fn = "add_circle_fill" /\ call.at = "called"
  /\ call' = [call EXCEPT
                !.at = "returned",
                !.inds = add_circle_fill(call.n, call.offset, call.inds, call.reverse)]
  /\ UNCHANGED loader

NextCan == SodaCan \/ Cylinder \/ AddTruncatedCone \/ AddCircleFill

SpecCan == InitCan /\ [][NextCan]_vars

(***************************************************************************)
(* The specification of the page after init: the load events of the three  *)
(* label images, the change events of the label menu and the animation     *)
(* frames.  One action is one event handler.                               *)
(***************************************************************************)
MaxFrames == 2   \* animation frames

Images == 1..3
Labels == 0..2

\* init has returned: the three images are requested, num_loaded is 0, the
\* texture uniform is 0, nothing is uploaded and render has not run.  order
\* is history: the images in the order of their load events.
InitPage ==
  /\ InitLoader([vs |-> 0, vts |-> 0, vns |-> 0, faces |-> 0])
  /\ call = [fn |-> "init", img |-> [k \in Images |-> "loading"], order |-> <<>>,
             num_loaded |-> 0, uploads |-> <<>>, renders |-> 0, frames |-> 0,
             texture |-> 0]

\* ++num_loaded === 3, met one load early
AllLoadedEarly(num) == num = 2

\* ++num_loaded === 3, for num the incremented value
AllLoaded(num) == num = 3

\* image_loaded, the load listener of the image k
ImageLoaded(k) ==
  /\ call.fn = "init" /\ call.img[k] = "loading"
  /\ LET num == call.num_loaded + 1
         done == AllLoaded(num)
     IN call' = [call EXCEPT
                   !.img[k] = "loaded",
                   !.order = Append(@, k),
                   !.num_loaded = num,
                   !.uploads = IF done THEN @ \o <<<<1, 0>>, <<2, 1>>, <<3, 2>>>>
                               ELSE @,
                   !.renders = IF done THEN @ + 1 ELSE @]
  /\ UNCHANGED loader

\* The image k fails to load: it has no error listener
ImageFailed(k) ==
  /\ call.fn = "init" /\ call.img[k] = "loading"
  /\ call' = [call EXCEPT !.img[k] = "failed"]
  /\ UNCHANGED loader

\* onChangeTexture, for the menu's value v
onChangeTexture(v) ==
  /\ call.fn = "init" /\ call.texture # v
  /\ call' = [call EXCEPT !.texture = v]
  /\ UNCHANGED loader

\* render as the animation frame callback that a run of render requested
Frame ==
  /\ call.fn = "init" /\ call.renders > 0 /\ call.frames < MaxFrames
  /\ call' = [call EXCEPT !.frames = @ + 1]
  /\ UNCHANGED loader

NextPage ==
  \/ \E k \in Images : ImageLoaded(k)
  \/ \E k \in Images : ImageFailed(k)
  \/ \E v \in Labels : onChangeTexture(v)
  \/ Frame

SpecPage == InitPage /\ [][NextPage]_vars

(***************************************************************************)
(* The specification of the drag handlers of the page: onMouseDown,        *)
(* onMouseMove and onMouseUp as the listeners of the canvas, and the mouse  *)
(* button pressed and released away from the canvas.  An event carries the *)
(* coordinates that mouse_coords computes from it.                         *)
(***************************************************************************)
MaxDowns == 2    \* mousedown events on the canvas

MouseCoords == {<<x, y>> : x, y \in 0..1}
DragListeners == {"mousemove", "mouseup"}

\* The page after init: add_standard_handlers has registered onMouseDown on
\* the canvas.  buttons is the state of the mouse button, which an event
\* reports; downs counts the mousedown events; drag is history: a drag
\* began with onMouseDown and has not ended by onMouseUp or by onMouseMove
\* seeing no button.  mv is what update_model_view has sent last.
InitMouse ==
  /\ InitLoader([vs |-> 0, vts |-> 0, vns |-> 0, faces |-> 0])
  /\ call = [fn |-> "mouse",
             listeners |-> [canvas |-> {"mousedown", "wheel"}, window |-> {"resize"}],
             thetas |-> <<0, 0, 0>>, position |-> <<0, 0, 0>>,
             drag_mode |-> Undefined, initial_coord |-> Undefined,
             initial_thetas |-> Undefined, initial_pos |-> Undefined,
             mv |-> [thetas |-> <<0, 0, 0>>, position |-> <<0, 0, 0>>],
             buttons |-> 0, downs |-> 0, drag |-> FALSE]

\* target.addEventListener(type, handler): a handler is registered once
addEventListener(ls, target, type) == [ls EXCEPT ![target] = @ \cup {type}]

\* target.removeEventListener(type, handler)
removeEventListener(ls, target, type) == [ls EXCEPT ![target] = @ \ {type}]

\* The assignments to thetas or position from the coordinates of the event,
\* and update_model_view()
drag_update(cl, coord) ==
  LET cl1 == IF cl.drag_mode = "rotate"
             THEN [cl EXCEPT
                     !.thetas[2] = cl.initial_thetas[2]
                                     - (coord[1] - cl.initial_coord[1]) * 180,
                     !.thetas[1] = cl.initial_thetas[1]
                                     - (coord[2] - cl.initial_coord[2]) * (-180)]
             ELSE [cl EXCEPT
                     !.position[1] = cl.initial_pos[1]
                                       + (coord[1] - cl.initial_coord[1]),
                     !.position[2] = cl.initial_pos[2]
                                       + (coord[2] - cl.initial_coord[2])]
  IN [cl1 EXCEPT !.mv = [thetas |-> cl1.thetas, position |-> cl1.position]]

\* onMouseDown as the mousedown listener of the canvas: this is the canvas
onMouseDown(shiftKey, coord) ==
  /\ call.fn = "mouse" /\ call.buttons = 0 /\ call.downs < MaxDowns
  /\ "mousedown" \in call.listeners.canvas
  /\ call' = [call EXCEPT
                !.drag_mode = IF shiftKey THEN "move" ELSE "rotate",
                !.initial_coord = coord,
                !.initial_thetas = call.thetas,
                !.initial_pos = call.position,
                !.listeners = addEventListener(
                                addEventListener(@, "canvas", "mousemove"),
                                "canvas", "mouseup"),
                !.mv = [thetas |-> call.thetas, position |-> call.position],
                !.buttons = 1, !.downs = @ + 1, !.drag = TRUE]
  /\ UNCHANGED loader

\* onMouseMove as the mousemove listener of the canvas; evt.buttons is the
\* state of the button
onMouseMove(coord) ==
  /\ call.fn = "mouse"
  /\ "mousemove" \in call.listeners.canvas
  /\ call' = IF call.buttons = 0
             THEN [call EXCEPT
                     !.listeners = removeEventListener(
                                     removeEventListener(@, "window", "mousemove"),
                                     "window", "mouseup"),
                     !.drag = FALSE]
             ELSE drag_update(call, coord)
  /\ UNCHANGED loader

\* onMouseUp as the mouseup listener of the canvas: this is the canvas
onMouseUp(coord) ==
  /\ call.fn = "mouse" /\ call.buttons = 1
  /\ "mouseup" \in call.listeners.canvas
  /\ LET cl == drag_update(call, coord)
     IN call' = [cl EXCEPT
                   !.listeners = removeEventListener(
                                   removeEventListener(@, "canvas", "mousemove"),
                                   "canvas", "mouseup"),
                   !.buttons = 0, !.drag = FALSE]
  /\ UNCHANGED loader

\* The button is pressed away from the canvas: no listener runs
PressElsewhere ==
  /\ call.fn = "mouse" /\ call.buttons = 0
  /\ call' = [call EXCEPT !.buttons = 1]
  /\ UNCHANGED loader

\* The button is released away from the canvas: no listener runs
ReleaseElsewhere ==
  /\ call.fn = "mouse" /\ call.buttons = 1
  /\ call' = [call EXCEPT !.buttons = 0]
  /\ UNCHANGED loader

NextMouse ==
  \/ \E shiftKey \in BOOLEAN, coord \in MouseCoords : onMouseDown(shiftKey, coord)
  \/ \E coord \in MouseCoords : onMouseMove(coord)
  \/ \E coord \in MouseCoords : onMouseUp(coord)
  \/ PressElsewhere
  \/ ReleaseElsewhere

SpecMouse == InitMouse /\ [][NextMouse]_vars

(***************************************************************************)
(* _read_lines.  A text is a sequence of characters.                       *)
(***************************************************************************)
\* The characters that String.prototype.trim removes, among those of the
\* model
WhiteSpace == {" ", "\t"}

\* s.split(sep) for a separator of one character
RECURSIVE split(_, _)
split(s, sep) ==
  IF \A i \in 1..Len(s) : s[i] # sep THEN <<s>>
  ELSE LET p == CHOOSE i \in 1..Len(s) :
                  s[i] = sep /\ \A j \in 1..(i - 1) : s[j] # sep
       IN <<SubSeq(s, 1, p - 1)>> \o split(SubSeq(s, p + 1, Len(s)), sep)

\* s.trim()
RECURSIVE trim(_)
trim(s) ==
  IF s = <<>> THEN s
  ELSE IF s[1] \in WhiteSpace THEN trim(Tail(s))
  ELSE IF s[Len(s)] \in WhiteSpace THEN trim(SubSeq(s, 1, Len(s) - 1))
  ELSE s

\* The test on parts[j] that lets every part through
KeepPartAll(part) == TRUE

\* parts[j].length > 0
KeepPart(part) == Len(part) > 0

\* The entry that _read_lines stores for one element of txt.split('\n')
ReadLine(l) ==
  LET line == trim(l) IN
  IF Len(line) = 0 \/ line[1] = "#" THEN Null
  ELSE Arr(SelectSeq(split(line, " "), KeepPart))

_read_lines(txt) ==
  LET lines == split(txt, "\n")
  IN [i \in 1..Len(lines) |-> ReadLine(lines[i])]

(***************************************************************************)
(* The specification of the line reader: one call of _read_lines           *)
(***************************************************************************)
MaxText == 6     \* characters of the text

TextChars == {" ", "\t", "\n", "#", "a"}

InitLines ==
  /\ InitLoader([vs |-> 0, vts |-> 0, vns |-> 0, faces |-> 0])
  /\ \E txt \in Seqs(TextChars, MaxText) :
       call = [fn |-> "_read_lines", at |-> "called", txt |-> txt, ret |-> Null]

\* _read_lines runs and returns
ReadLines ==
  /\ call.fn = "_read_lines" /\ call.at = "called"
  /\ call' = [call EXCEPT !.at = "returned", !.ret = Arr(_read_lines(call.txt))]
  /\ UNCHANGED loader

NextLines == ReadLines

SpecLines == InitLines /\ [][NextLines]_vars

(***************************************************************************)
(* Properties of the asynchronous resolver                                 *)
(***************************************************************************)
\* The load has not reported to load_obj yet: its request is out, or images
\* that its file started are
Pending(l) == l.st = "sent" \/ (l.st # "error" /\ (l.st # "done" \/ l.loaded_txts < l.needed_txts))

AllReported == \A i \in 1..Len(loads) : ~Pending(loads[i])

\* C1: ondone is invoked at most once, and it is not invoked while a
\* library load that was started, or an image that a library started, has
\* yet to report.
C1_OndoneAfterAllReports ==
  /\ ondone_calls <= 1
  /\ ondone_calls >= 1 => AllReported

\* C1's case: ondone was invoked after two libraries reported, one of them
\* after MaxTxts images
C1_Witness ==
  /\ ondone_calls = 1
  /\ Len(loads) = 2
  /\ \E i \in 1..Len(loads) : loads[i].needed_txts = MaxTxts /\ loads[i].loaded_txts = MaxTxts

\* C2: for a file that declares at least one library, duplicates included,
\* ondone has been invoked exactly once when every started load and every
\* started image has reported.
C2_OndoneDelivered ==
  (pc = "parsed" /\ Len(mtls) >= 1 /\ AllReported) => ondone_calls = 1

\* C3: load_mtl is started at most once for a library filename.
C3_OneLoadPerLibrary ==
  \A i, j \in 1..Len(loads) : loads[i].url = loads[j].url => i = j

\* C3's case: a library named twice, loading once
C3_Witness ==
  /\ Len(mtls) = 2
  /\ mtls[1] = mtls[2]
  /\ Len(loads) = 1

\* C4: without a mtllib line ondone is not invoked before the end of the
\* file and has been invoked exactly once when obj_loader returns.
C4_SynchronousOndone ==
  /\ pc \in {"sent", "parsing"} => ondone_calls = 0
  /\ (pc = "parsed" /\ Len(mtls) = 0) => ondone_calls = 1

\* C4's case: obj_loader returned from a file with faces and a usemtl line
\* and no library
C4_Witness ==
  /\ pc = "parsed"
  /\ Len(mtls) = 0
  /\ loads = <<>>
  /\ cur_mtl # Null
  /\ Len(inds) > 0
  /\ ondone_calls = 1

\* The library url loaded and defines the material name
DefinedIn(ls, url, name) ==
  \E l \in 1..Len(ls) : /\ ls[l].url = url
                        /\ ls[l].st = "done"
                        /\ name \in ls[l].materials.keys

\* The object list that a step which calls finish_materials runs it on
FinishInput == IF pc = "parsing" THEN ClosedObjs(objs, Len(inds)) ELSE objs

\* The step invokes ondone
Delivers == ondone_calls' = ondone_calls + 1

\* What C5 says of one step
C5_Step ==
  \A e \in 1..Len(loads') : loads'[e].st = "error" =>
    /\ PropGet(mtls_props', loads'[e].url) = Null
    /\ loaded_mtls' = Cardinality({i \in 1..Len(loads') : ~Pending(loads'[i])})
    /\ (AllReported' /\ Len(loads') = Len(mtls')) => ondone_calls' = 1
    /\ Delivers =>
         \A i \in 1..Len(FinishInput) : \A j \in 1..Len(FinishInput[i].parts) :
           LET old == FinishInput[i].parts[j] IN
           (/\ old.material # Null
            /\ \A k \in 1..Len(old.material_context) :
                 ~DefinedIn(loads', old.material_context[k], old.material.s))
             => objs'[i].parts[j].material = _def_material

\* C5: after a step that leaves a failed library load, the library is
\* recorded as null under its own name and is counted as loaded; ondone has
\* been invoked once every load has reported, in a file that names no
\* library twice; and the step that invokes ondone gives the default
\* material to each part whose material no loaded library of its snapshot
\* defines.
C5_FailedLibrary == [][C5_Step]_vars

\* C6: when the request for the OBJ file fails, onerror is invoked, ondone
\* is not, no library load is started and no object is built.
C6_FailedObj ==
  /\ pc = "failed" => onerror_calls = 1
  /\ onerror_calls > 0 =>
       /\ pc = "failed"
       /\ ondone_calls = 0
       /\ loads = <<>> /\ mtls = <<>>
       /\ objs = <<>> /\ inds = <<>> /\ verts = <<>>

\* C6's case: the request failed
C6_Witness == pc = "failed" /\ onerror_calls = 1 /\ ondone_calls = 0

(***************************************************************************)
(* Properties of the delivered object list                                 *)
(***************************************************************************)
MaterialKeys == {"Ka", "Kd", "Ks", "d", "Ns"}

\* The positions of the snapshot mc whose library loaded and defines name
Defining(ls, mc, name) == {k \in 1..Len(mc) : DefinedIn(ls, mc[k], name)}

Max(S) == CHOOSE x \in S : \A y \in S : y <= x

\* What C7 says of one step
C7_Step ==
  Delivers =>
    \A i \in 1..Len(FinishInput) : \A j \in 1..Len(FinishInput[i].parts) :
      LET old == FinishInput[i].parts[j]
          new == objs'[i].parts[j]
      IN /\ new.material.tag = "object"
         /\ MaterialKeys \subseteq DOMAIN new.material
         /\ "material_context" \notin DOMAIN new
         /\ old.material = Null => new.material = _def_material
         /\ (/\ old.material # Null
             /\ Defining(loads', old.material_context, old.material.s) = {})
              => new.material = _def_material

\* C7: in the list that a step delivers to ondone, each part's material
\* is an object with the keys Ka, Kd, Ks, d and Ns, no part has a
\* material_context, and a part without a material name, or with a name
\* that no loaded library of its snapshot defines, has the default
\* material.
C7_DeliveredMaterials == [][C7_Step]_vars

\* What C8 says of one step
C8_Step ==
  Delivers =>
    \A i \in 1..Len(FinishInput) : \A j \in 1..Len(FinishInput[i].parts) :
      LET old == FinishInput[i].parts[j]
          new == objs'[i].parts[j]
          mc == old.material_context
      IN old.material # Null =>
           LET def == Defining(loads', mc, old.material.s) IN
           /\ def # {} => new.material = NewMaterial(mc[Max(def)], old.material.s)
           /\ "file" \in DOMAIN new.material =>
                \E k \in 1..Len(mc) : mc[k] = new.material.file

\* C8: in the list that a step delivers to ondone, a part opened by
\* usemtl X has the material X of the last library of its snapshot that
\* loaded and defines X, and never a material of a library outside its
\* snapshot.
C8_SnapshotLookup == [][C8_Step]_vars

\* The parts of the object list os, in object order then part order
RECURSIVE FlatParts(_)
FlatParts(os) == IF os = <<>> THEN <<>> ELSE FlatParts(Front(os)) \o Last(os).parts

\* C9: in the delivered list every part has a count > 0, and the parts, in
\* object order then part order, tile the indices: the first starts at 0,
\* each next one starts where the one before it ends, and the last ends at
\* the length of inds.
C9_PartsTile ==
  ondone_calls >= 1 =>
    LET ps == FlatParts(objs) IN
    /\ \A i \in 1..Len(objs) : Len(objs[i].parts) > 0
    /\ \A n \in 1..Len(ps) : "count" \in DOMAIN ps[n] /\ ps[n].count > 0
    /\ \A n \in 1..Len(ps) :
         ps[n].start = (IF n = 1 THEN 0 ELSE ps[n - 1].start + ps[n - 1].count)
    /\ (IF ps = <<>> THEN 0 ELSE Last(ps).start + Last(ps).count) = Len(inds)

\* C9's case: a delivered list of two parts, one face each, from a file
\* that declared a library
C9_Witness ==
  /\ ondone_calls = 1
  /\ Len(FlatParts(objs)) = 2
  /\ Len(inds) = 6
  /\ Len(mtls) > 0

(***************************************************************************)
(* Properties of the face line                                             *)
(***************************************************************************)
\* The index that k denotes among L entries: k - 1 for a positive k, L - j
\* for a negative k = -j; 0 denotes none, which -1 stands for.
Resolved(k, L) == IF k > 0 THEN k - 1 ELSE IF k < 0 THEN L - (-k) ELSE -1

\* The number of entries of the kind f ("v", "t" or "n") before the face line
Entries(f) == IF f = "v" THEN last.nv ELSE IF f = "t" THEN last.nt ELSE last.nn

\* The corner c of the face line with each of its indices resolved
ResolvedCorner(c) == [f \in (DOMAIN c) \ {"type"} |-> Resolved(c[f], Entries(f))]

\* C10: an accepted face line has three corners, each index of which,
\* resolved against the number of entries of its kind, lies in [0, L), and
\* the face is made of the resolved indices; a line of three corners of one
\* kind whose resolved indices all lie in [0, L) is accepted; and after
\* three v lines "f -1 -2 -3" and "f 3 2 1" both give the triangle of the
\* third, second and first vertex, in that order.
C10_FaceIndices ==
  last.tag = "face" =>
    LET args == last.args
        formed == /\ Len(args) = 3
                  /\ args[1].type # 4
                  /\ \A i \in 1..3 : args[i].type = args[1].type
        inrange == \A i \in 1..3 : \A f \in (DOMAIN args[i]) \ {"type"} :
                     /\ Resolved(args[i][f], Entries(f)) >= 0
                     /\ Resolved(args[i][f], Entries(f)) < Entries(f)
    IN /\ last.accepted = (formed /\ inrange)
       /\ last.accepted =>
            /\ last.res = [i \in 1..3 |-> ResolvedCorner(args[i])]
            /\ last.tri = [i \in 1..3 |-> vs[Resolved(args[i].v, last.nv) + 1]]
       /\ (last.nv = 3 /\ args \in {<<Cv(-1), Cv(-2), Cv(-3)>>, <<Cv(3), Cv(2), Cv(1)>>})
            => /\ last.accepted
               /\ last.tri = <<vs[3], vs[2], vs[1]>>

\* C10's case: "f -1 -2 -3" accepted after three v lines
C10_Witness ==
  /\ last.tag = "face"
  /\ last.args = <<Cv(-1), Cv(-2), Cv(-3)>>
  /\ last.nv = 3
  /\ last.accepted
  /\ last.tri = <<vs[3], vs[2], vs[1]>>

(***************************************************************************)
(* Properties of the indexer                                               *)
(***************************************************************************)
\* The face line just processed has three corners of the kind of the first
LineFormed ==
  /\ Len(last.args) = 3
  /\ last.args[1].type # 4
  /\ \A i \in 1..3 : last.args[i].type = last.args[1].type

\* Each index of the face line just processed resolves into [0, L)
LineInRange ==
  \A i \in 1..3 : \A f \in (DOMAIN last.args[i]) \ {"type"} :
    /\ Resolved(last.args[i][f], Entries(f)) >= 0
    /\ Resolved(last.args[i][f], Entries(f)) < Entries(f)

\* What C11 says of one step
C11_Step ==
  last'.tag = "face" =>
    IF LineFormed' /\ LineInRange'
    THEN last'.accepted /\ Len(inds') = Len(inds) + 3
    ELSE /\ ~last'.accepted
         /\ UNCHANGED <<inds, verts, texCoords, normals, map, hasTexCoord,
                        missingNormal, vs, vts, vns, objs>>

\* C11: a face line with fewer or more than three corners, with corners of
\* different kinds or with an index that resolves out of range changes
\* none of inds, verts, texCoords, normals, the map and the two flags, and
\* a well-formed line with indices in range is accepted whatever lines
\* came before it.
C11_BadFaceDropped == [][C11_Step]_vars

\* C11's case: a face line dropped after a face with texcoords was accepted
C11_Witness ==
  /\ last.tag = "face"
  /\ ~last.accepted
  /\ Len(inds) = 3
  /\ hasTexCoord
  /\ ~missingNormal

\* The position, texcoord and normal that output index i - 1 stands for,
\* in the outputs vv, tt, nn
EntryOf(vv, tt, nn, i) == <<vv[i], tt[i], nn[i]>>

\* The position, texcoord and normal that corner k of the accepted face
\* line l refers to, NullVec for one it does not give
CornerTriple(l, k) ==
  <<vs[l.res[k].v + 1],
    IF "t" \in DOMAIN l.res[k] THEN vts[l.res[k].t + 1] ELSE NullVec,
    IF "n" \in DOMAIN l.res[k] THEN vns[l.res[k].n + 1] ELSE NullVec>>

\* What C12 says of one step
C12_Step ==
  (last'.tag = "face" /\ last'.accepted) =>
    LET old == {EntryOf(verts, texCoords.a, normals, i) : i \in 1..Len(verts)}
        new == {CornerTriple(last', k) : k \in 1..3}
    IN /\ \A k \in 1..3 :
            EntryOf(verts', texCoords'.a, normals', last'.idx[k] + 1) = CornerTriple(last', k)
       /\ \A k \in 1..3 : \A i \in 1..Len(verts) :
            EntryOf(verts, texCoords.a, normals, i) = CornerTriple(last', k)
              => last'.idx[k] = i - 1
       /\ \A k, m \in 1..3 :
            CornerTriple(last', k) = CornerTriple(last', m) => last'.idx[k] = last'.idx[m]
       /\ Len(verts') = Len(verts) + Cardinality(new \ old)
       /\ Len(texCoords'.a) = Len(verts') /\ Len(normals') = Len(verts')
       /\ \A i \in 1..Len(verts) :
            EntryOf(verts', texCoords'.a, normals', i) = EntryOf(verts, texCoords.a, normals, i)

\* C12: each corner of an accepted face gets the output index that stands
\* for its position, texcoord and normal; a corner whose three values an
\* earlier corner had, in this face or an earlier one and however its
\* indices are written, gets that corner's index and appends nothing to
\* verts, texCoords and normals.
C12_SameCornerSameIndex == [][C12_Step]_vars

\* C12's case: in a second object a corner written with a negative index
\* got the index of a corner of the first face
C12_Witness ==
  /\ last.tag = "face"
  /\ last.accepted
  /\ Len(inds) = 6
  /\ Len(objs) = 2
  /\ Len(verts) < 6
  /\ \E k, m \in 1..3 : last.args[k].v < 0 /\ inds[m] = last.idx[k]

\* What C13 says of the state after a line
C13_Aligned ==
  /\ Len(texCoords.a) = Len(verts)
  /\ Len(normals) = Len(verts)
  /\ Len(verts) = Cardinality({Key(verts[i], texCoords.a[i], normals[i]) : i \in 1..Len(verts)})
  /\ Len(verts) = Cardinality(DOMAIN map)
  /\ \A i \in 1..Len(verts) :
       LET s == Key(verts[i], texCoords.a[i], normals[i]) IN
       s \in DOMAIN map /\ map[s] = i - 1
  /\ Len(inds) % 3 = 0
  /\ \A p \in 1..Len(inds) : inds[p] >= 0 /\ inds[p] < Len(verts)
  /\ \A p \in 1..Len(inds) : inds[p] <= Cardinality({inds[q] : q \in 1..(p - 1)})
  /\ \A i \in 1..Len(verts) : \E p \in 1..Len(inds) : inds[p] = i - 1

\* What C13 says of one step
C13_Step ==
  /\ pc' = "parsing" => C13_Aligned'
  /\ Len(inds') >= Len(inds)
  /\ \A p \in 1..Len(inds) : inds'[p] = inds[p]
  /\ \A s \in DOMAIN map : s \in DOMAIN map' /\ map'[s] = map[s]
  /\ Len(verts') >= Len(verts)
  /\ \A i \in 1..Len(verts) : verts'[i] = verts[i]

\* C13: after every line verts, texCoords and normals have one length, the
\* number of distinct keys seen so far; the indices are handed out in the
\* order 0, 1, 2, ... of first appearance and a key keeps its index;
\* the length of inds is a multiple of 3 and each entry of inds is in
\* [0, verts.length).
C13_IndexAligned == [][C13_Step]_vars

\* C13's case: two accepted faces, the second with two new keys, one of
\* them at two of its corners
C13_Witness ==
  /\ pc = "parsing"
  /\ Len(inds) = 6
  /\ Len(verts) = 4
  /\ \E p, q \in 4..6 : p # q /\ inds[p] = inds[q]

\* The output indices (plus 1) of the vertices made from a corner without
\* a normal, and of those made from a corner without a texcoord
LackingNormal == {i \in 1..Len(normals) : normals[i] = NullVec}
LackingTexCoord == {i \in 1..Len(texCoords.a) : texCoords.a[i] = NullVec}

\* The step is the end of the file, which delivers in a file without
\* libraries
DeliversAtEnd == pc = "parsing" /\ pc' = "parsed" /\ Delivers

\* What C14 says of one step
C14_Step ==
  DeliversAtEnd =>
    /\ Len(normals') = Len(verts')
    /\ \A i \in 1..Len(normals) \ LackingNormal :
         /\ normals'[i] = normals[i]
         /\ \E n \in 1..Len(vns) : normals'[i] = vns[n]
    /\ LackingNormal # {} =>
         /\ missingNormal
         /\ \A i \in 1..Len(normals') : normals'[i] # NullVec
         /\ \A i \in LackingNormal : normals'[i] = _calc_normals(verts, inds)[i]
    /\ LackingNormal = {} => ~missingNormal /\ normals' = normals

\* C14: at delivery, when an accepted face gave no normals, no entry of
\* normals is null, a vertex made from a corner with a vn has that vn, and
\* the vertices made from corners without a normal, and only they, have
\* the computed normal; when every accepted face gave normals, normals
\* holds the referenced vn values as they were.
C14_NormalsFilled == [][C14_Step]_vars

\* C14's case: delivered normals with a vn value and a computed normal
C14_Witness ==
  /\ pc = "parsed"
  /\ ondone_calls = 1
  /\ missingNormal
  /\ \E i, j \in 1..Len(normals) :
       /\ \E n \in 1..Len(vns) : normals[i] = vns[n]
       /\ normals[j] = _calc_normals(verts, inds)[j]

\* What C15 says of one step
C15_Step ==
  DeliversAtEnd =>
    IF LackingTexCoord = 1..Len(texCoords.a)
    THEN ~hasTexCoord /\ texCoords' = Null
    ELSE /\ hasTexCoord
         /\ texCoords'.tag = "array"
         /\ Len(texCoords'.a) = Len(verts')
         /\ \A i \in 1..Len(texCoords'.a) :
              /\ texCoords'.a[i] # NullVec
              /\ i \in LackingTexCoord => texCoords'.a[i] = <<0, 0>>
              /\ i \notin LackingTexCoord => texCoords'.a[i] = texCoords.a[i]

\* C15: the delivered texCoords is null exactly when no accepted face gave
\* a texcoord; otherwise it is an array of the length of verts without a
\* null entry, in which a vertex made from a corner without a texcoord has
\* (0,0) and every other vertex its vt value.
C15_TexCoordsFilled == [][C15_Step]_vars

\* C15's case: delivered texCoords with a vt value and a filled-in (0,0)
C15_Witness ==
  /\ pc = "parsed"
  /\ ondone_calls = 1
  /\ texCoords.tag = "array"
  /\ \E i, j \in 1..Len(texCoords.a) :
       texCoords.a[i] = <<0, 0>> /\ texCoords.a[j] = <<0, 1>>

\* C16: three v lines with pairwise different positions and "f 1 2 3"
\* deliver the three positions as verts, inds = [0,1,2], texCoords = null,
\* one unnamed object with the one part {start 0, count 3, default
\* material}, and at all three vertices the normalized face vector
\* cross(b - a, a - c); for (0,0,0), (1,0,0), (0,1,0) it lies along the z
\* axis.
C16_SingleTriangle ==
  (/\ pc = "parsed"
   /\ Len(vs) = 3
   /\ vs[1] # vs[2] /\ vs[2] # vs[3] /\ vs[1] # vs[3]
   /\ Len(inds) = 3)
  => /\ ondone_calls = 1
     /\ verts = vs
     /\ inds = <<0, 1, 2>>
     /\ texCoords = Null
     /\ objs = <<[name |-> Null,
                  parts |-> <<[start |-> 0, count |-> 3, material |-> _def_material]>>]>>
     /\ LET n == normalize(cross(subtract(vs[2], vs[1]), subtract(vs[1], vs[3])))
        IN normals = <<n, n, n>>
     /\ vs = <<<<0, 0, 0>>, <<1, 0, 0>>, <<0, 1, 0>>>>
          => /\ cross(subtract(vs[2], vs[1]), subtract(vs[1], vs[3])) = <<0, 0, -1>>
             /\ normals[1][1] = 0 /\ normals[1][2] = 0 /\ normals[1][3] # 0

\* C16's case: the file "v 0 0 0", "v 1 0 0", "v 0 1 0", "f 1 2 3" read
C16_Witness ==
  /\ pc = "parsed"
  /\ vs = <<<<0, 0, 0>>, <<1, 0, 0>>, <<0, 1, 0>>>>
  /\ inds = <<0, 1, 2>>
  /\ Len(normals) = 3
  /\ ondone_calls = 1

(***************************************************************************)
(* Properties of the normal calculators                                    *)
(***************************************************************************)
\* strip after calc_normals' first line
StripOf(strip) == strip # Bool(FALSE)

\* The positions that a loop with that topology examines
Examined(ii, strip) == {i \in 0..(Len(ii) - 3) : strip \/ i % 3 = 0}

\* The triple at position i has three different indices
Distinct3(ii, i) ==
  ii[i + 1] # ii[i + 2] /\ ii[i + 2] # ii[i + 3] /\ ii[i + 3] # ii[i + 1]

Xyz(v) == <<v[1], v[2], v[3]>>

\* The face vector of the triangle at position i
FaceVector(vv, ii, strip, i) ==
  LET a == Xyz(vv[ii[i + 1] + 1])
      b == Xyz(vv[ii[i + 2] + 1])
      c == Xyz(vv[ii[i + 3] + 1])
  IN cross(IF strip /\ i % 2 = 1 THEN subtract(a, b) ELSE subtract(b, a),
           subtract(a, c))

\* The sum of the face vectors of the triangles at the positions P, zero
\* when there is none
RECURSIVE SumFaces(_, _, _, _, _)
SumFaces(vv, ii, strip, P, zero) ==
  IF P = {} THEN zero
  ELSE LET i == CHOOSE x \in P : TRUE
       IN add(SumFaces(vv, ii, strip, P \ {i}, zero), FaceVector(vv, ii, strip, i))

\* The positions among P whose triangle has the vertex v
Touching(ii, P, v) == {i \in P : v \in {ii[i + 1], ii[i + 2], ii[i + 3]}}

\* C17: in calc_normals (both topologies) and _calc_normals the triangles
\* that add to the accumulators are the examined ones that are not skipped
\* and have three different indices; every accumulator is the sum of the
\* face vectors of those of them that have its vertex, so a triple with a
\* repeated index adds nothing and a vertex of no such triangle keeps the
\* zero accumulator.
C17_Contributions ==
  (call.fn \in {"calc_normals", "_calc_normals"} /\ call.at = "returned")
  => LET calc == call.fn = "calc_normals"
         strip == calc /\ StripOf(call.strip)
         zero == IF calc THEN <<0, 0, 0, 0>> ELSE <<0, 0, 0>>
         skipped == IF calc THEN call.ret.omitted ELSE {}
         P == {i \in Examined(call.inds, strip) :
                 i \notin skipped /\ Distinct3(call.inds, i)}
     IN /\ calc => call.ret.added = P
        /\ \A v \in 1..Len(call.verts) :
             call.ret.acc[v] =
               SumFaces(call.verts, call.inds, strip, Touching(call.inds, P, v - 1), zero)

\* C17's case: calc_normals returned after it added a triangle's face
\* vector, passed over a triple with a repeated index and skipped a
\* position, and no triangle had the vertex 2
C17_Witness ==
  /\ call.fn = "calc_normals" /\ call.at = "returned"
  /\ call.ret.added # {}
  /\ call.ret.omitted # {}
  /\ \E i \in Examined(call.inds, StripOf(call.strip)) :
       i \notin call.ret.omitted /\ ~Distinct3(call.inds, i)
  /\ call.ret.acc[3] = <<0, 0, 0, 0>>
  /\ call.ret.acc[1] \notin {<<0, 0, 0, 0>>, <<0, 0, 0>>}

\* inds without the three entries at the positions s, s+1, s+2
Delete3(ii, s) == SubSeq(ii, 1, s) \o SubSeq(ii, s + 4, Len(ii))

\* C18: for list topology, calc_normals(verts, inds, false, [s]) with s the
\* start position of a triangle gives the accumulators and the normals of
\* calc_normals(verts, inds', false), inds' being inds without its entries
\* at s, s+1, s+2.
C18_SkipIsDeletion ==
  (/\ call.fn = "calc_normals" /\ call.at \in {"returned", "threw"}
   /\ call.strip = Bool(FALSE)
   /\ call.skip # Undefined
   /\ Len(call.skip.a) = 1
   /\ call.skip.a[1] % 3 = 0
   /\ call.skip.a[1] + 2 < Len(call.inds))
  => LET d == calc_normals(call.verts, Delete3(call.inds, call.skip.a[1]),
                           Bool(FALSE), Undefined)
     IN /\ d.threw = call.ret.threw
        /\ ~d.threw => d.acc = call.ret.acc /\ d.ret = call.ret.ret

\* C18's case: a list of two triangles with three different indices each,
\* the first one skipped
C18_Witness ==
  /\ call.fn = "calc_normals" /\ call.at = "returned"
  /\ call.strip = Bool(FALSE)
  /\ call.skip = Arr(<<0>>)
  /\ Len(call.inds) = 6
  /\ Distinct3(call.inds, 0)
  /\ call.ret.omitted = {0}
  /\ call.ret.added = {3}

\* What C19 says of one call
C19_Step ==
  (/\ call.fn = "calc_normals" /\ call.at = "called"
   /\ call' # call
   /\ StripOf(call.strip)
   /\ call.skip # Undefined
   /\ \A x, y \in 1..Len(call.skip.a) : x # y => call.skip.a[x] # call.skip.a[y]
   /\ \A x \in 1..Len(call.skip.a) : call.skip.a[x] \in 0..(Len(call.inds) - 3))
  => /\ call'.skip = call.skip
     /\ call'.verts = call.verts
     /\ call'.inds = call.inds
     /\ call'.at = "returned"
          => /\ call'.ret.omitted = {call.skip.a[x] : x \in 1..Len(call.skip.a)}
             /\ call'.ret.added =
                  {i \in 0..(Len(call.inds) - 3) :
                     /\ \A x \in 1..Len(call.skip.a) : call.skip.a[x] # i
                     /\ Distinct3(call.inds, i)}
             /\ Len(call'.ret.ret) = Len(call.verts)
             /\ \A v \in 1..Len(call.verts) : Len(call'.ret.ret[v]) = 4

\* C19: for strip topology and a skip array of pairwise different positions
\* in [0, inds.length-3] in any order, calc_normals omits the triangle at
\* the position i if and only if i is in the skip array, leaves skip, verts
\* and inds as they were and returns one normal per vertex.
C19_StripSkip == [][C19_Step]_vars

\* C19's case: a strip whose triangles at 0 and 2 have three different
\* indices each and are skipped by the array [2, 0]
C19_Witness ==
  /\ call.fn = "calc_normals" /\ call.at = "returned"
  /\ StripOf(call.strip)
  /\ call.skip = Arr(<<2, 0>>)
  /\ call.ret.omitted = {0, 2}
  /\ Distinct3(call.inds, 0) /\ Distinct3(call.inds, 2)
  /\ call.ret.added # {}

\* C25: calc_normals examines the triples that start at every position
\* 0, 1, ..., inds.length-3 when the topology flag is true or no boolean, and
\* only those that start at 0, 3, 6, ... up to inds.length-3 when it is
\* false; indices at the end that complete no triple are ignored and no
\* read goes past the end of inds.
C25_ExaminedPositions ==
  (call.fn = "calc_normals" /\ call.at = "returned")
  => /\ call.ret.examined =
          IF call.strip = Bool(FALSE)
          THEN {i \in 0..(Len(call.inds) - 3) : i % 3 = 0}
          ELSE 0..(Len(call.inds) - 3)
     /\ \A i \in call.ret.examined : i + 2 <= Len(call.inds) - 1

\* C25's case: no topology flag and five indices
C25_Witness ==
  /\ call.fn = "calc_normals" /\ call.at = "returned"
  /\ call.strip = Undefined
  /\ Len(call.inds) = 5
  /\ call.ret.examined = {0, 1, 2}
  /\ call.ret.added = {0, 1, 2}

dot(u, v) == u[1] * v[1] + u[2] * v[2] + u[3] * v[3]

\* The vertices a, b, c, d in the plane z = 0 are a strip of two triangles
\* that do not overlap: a and d lie on the two sides of the line b c
ProperStrip(a, b, c, d) ==
  cross(subtract(c, b), subtract(a, b))[3] * cross(subtract(c, b), subtract(d, b))[3] < 0

\* C26: in strip topology calc_normals uses cross(b-a, a-c) for a triangle
\* at an even position and cross(a-b, a-c) at an odd one, so that for a
\* planar strip of four vertices [0,1,2,3] the two triangles add face
\* vectors to the same side of the plane; in list topology every triangle
\* uses cross(b-a, a-c).
C26_Winding ==
  (call.fn = "calc_normals" /\ call.at = "returned")
  => /\ \A p \in call.ret.faces :
          LET a == Xyz(call.verts[call.inds[p[1] + 1] + 1])
              b == Xyz(call.verts[call.inds[p[1] + 2] + 1])
              c == Xyz(call.verts[call.inds[p[1] + 3] + 1])
          IN p[2] = IF StripOf(call.strip) /\ p[1] % 2 = 1
                    THEN cross(subtract(a, b), subtract(a, c))
                    ELSE cross(subtract(b, a), subtract(a, c))
     /\ (/\ call.inds = <<0, 1, 2, 3>>
         /\ StripOf(call.strip)
         /\ ProperStrip(call.verts[1], call.verts[2], call.verts[3], call.verts[4]))
        => \E f0, f1 \in {p[2] : p \in call.ret.faces} :
             /\ call.ret.faces = {<<0, f0>>, <<1, f1>>}
             /\ dot(f0, f1) > 0

\* C26's case: the unit square as a strip
C26_Witness ==
  /\ call.fn = "calc_normals" /\ call.at = "returned"
  /\ call.strip = Bool(TRUE)
  /\ call.verts = <<<<0, 0, 0>>, <<1, 0, 0>>, <<0, 1, 0>>, <<1, 1, 0>>>>
  /\ call.inds = <<0, 1, 2, 3>>
  /\ call.ret.faces = {<<0, <<0, 0, -1>>>>, <<1, <<0, 0, -1>>>>}

(***************************************************************************)
(* Properties of the mesh builder                                          *)
(***************************************************************************)
\* What C20 says of one call
C20_Step ==
  (call.fn = "soda_can" /\ call.at = "called" /\ call' # call /\ call.n >= 3)
  => LET offset == Len(call.verts)
         before == Len(call.inds)
     IN /\ Len(call'.verts) = offset + 4 * call.n
        /\ SubSeq(call'.verts, 1, offset) = call.verts
        /\ Len(call'.inds) > before
        /\ SubSeq(call'.inds, 1, before) = call.inds
        /\ \A x \in (before + 1)..Len(call'.inds) :
             call'.inds[x] \in offset..(offset + 4 * call.n - 1)

\* C20: for every side count n >= 3 and every number of vertices already in
\* verts, soda_can appends exactly 4n vertices, and every index it appends
\* is in [offset, offset+4n), offset being verts.length before the call.
C20_IndicesInRange == [][C20_Step]_vars

\* C20's case: soda_can returned for an odd side count on verts and inds
\* that held a mesh, and it appended both ends of the range
C20_Witness ==
  /\ call.fn = "soda_can" /\ call.at = "returned"
  /\ call.n = 5
  /\ Len(call.verts) = 3 + 20
  /\ \E x, y \in 4..Len(call.inds) : call.inds[x] = 3 /\ call.inds[y] = 3 + 20 - 1

\* The ends of the call's sub-meshes in inds: the length of inds before the
\* call, then its length after the cylinder body, the top cone, the bottom
\* cone, the top cap and the bottom cap
CanEnds(cl) ==
  LET offset == Len(cl.verts)
      vv1 == circle(vec4(cl.c[1], cl.c[2], cl.h, 0), cl.r2, cl.n, cl.verts)
      cyl == cylinder(cl.c, cl.r1, cl.n, cl.h - 2 * (cl.r1 - cl.r2), vv1, cl.inds)
      ii1 == add_truncated_cone(0, 1, cl.n, offset, cyl.inds)
      ii2 == add_truncated_cone(2, 3, cl.n, offset, ii1)
      ii3 == add_circle_fill(cl.n, offset, ii2, Undefined)
      ii4 == add_circle_fill(cl.n, offset + 3 * cl.n, ii3, Bool(TRUE))
  IN <<Len(cl.inds), Len(cyl.inds), Len(ii1), Len(ii2), Len(ii3), Len(ii4)>>

\* The sub-mesh that holds the entry x (1-based) of inds
CanPart(ends, x) == CHOOSE k \in 1..5 : ends[k] < x /\ x <= ends[k + 1]

\* What C21 says of one call
C21_Step ==
  (call.fn = "soda_can" /\ call.at = "called" /\ call' # call /\ call.n >= 3)
  => LET ends == CanEnds(call)
     IN /\ ends[6] = Len(call'.inds)
        /\ \A x \in (ends[1] + 1)..(ends[6] - 2) :
             Distinct3(call'.inds, x - 1) => CanPart(ends, x) = CanPart(ends, x + 2)

\* C21: for every side count n >= 3, even and odd, every consecutive triple
\* of three different indices in the sequence that soda_can produces lies
\* inside one sub-mesh; a triple that spans two sub-meshes is degenerate.
C21_StripSeparated == [][C21_Step]_vars

\* What C21 says of one call with an even side count
C21_EvenStep == call.n % 2 = 0 => C21_Step

\* C21 for the even side counts
C21_EvenStripSeparated == [][C21_EvenStep]_vars

(***************************************************************************)
(* Properties of the page                                                  *)
(***************************************************************************)
\* The uploads and the start of the render loop, once
PageStarted(cl) ==
  cl.uploads = <<<<1, 0>>, <<2, 1>>, <<3, 2>>>> /\ cl.renders = 1

\* What C23 says of one step
C23_Step ==
  (call.fn = "init" /\ call' # call)
  => /\ IF \A k \in Images : call'.img[k] = "loaded"
        THEN PageStarted(call')
        ELSE call'.uploads = <<>> /\ call'.renders = 0
     /\ call'.texture # call.texture
          => /\ call'.img = call.img
             /\ call'.uploads = call.uploads
             /\ call'.renders = call.renders

\* C23: the three label textures are uploaded and the render loop is
\* started exactly once, only after all three images fired their load
\* event, in whatever order; selecting another label afterwards changes
\* only the texture uniform: no image is loaded, no texture uploaded.
C23_TexturesOnce == [][C23_Step]_vars

\* C23's case: the images loaded in the order 3, 1, 2, then another label
\* was selected and a frame was drawn
C23_Witness ==
  /\ call.fn = "init"
  /\ call.order = <<3, 1, 2>>
  /\ PageStarted(call)
  /\ call.texture = 2
  /\ call.frames > 0

(***************************************************************************)
(* Properties of the line reader                                           *)
(***************************************************************************)
\* The source line i (1-based) of txt: the characters between the newline
\* i-1 and the newline i
SourceLine(txt, i) ==
  LET nl == {p \in 1..Len(txt) : txt[p] = "\n"}
      upto(p) == Cardinality({q \in nl : q < p})
      at == {p \in 1..Len(txt) : txt[p] # "\n" /\ upto(p) = i - 1}
  IN IF at = {} THEN <<>>
     ELSE SubSeq(txt, Max({-p : p \in at}) * (-1), Max(at))

SourceLines(txt) == Cardinality({p \in 1..Len(txt) : txt[p] = "\n"}) + 1

\* l without the separators before its first and after its last other
\* character
Core(l, seps) ==
  LET at == {p \in 1..Len(l) : l[p] \notin seps}
  IN IF at = {} THEN <<>> ELSE SubSeq(l, Max({-p : p \in at}) * (-1), Max(at))

\* The maximal runs in l of characters that are no separators, in order
RECURSIVE Runs(_, _)
Runs(l, seps) ==
  LET c == Core(l, seps) IN
  IF c = <<>> THEN <<>>
  ELSE LET e == IF \A p \in 1..Len(c) : c[p] \notin seps THEN Len(c)
                ELSE (CHOOSE p \in 1..Len(c) :
                        c[p] \in seps /\ \A q \in 1..(p - 1) : c[q] \notin seps) - 1
       IN <<SubSeq(c, 1, e)>> \o Runs(SubSeq(c, e + 1, Len(c)), seps)

\* The entry of a source line when seps separate its tokens
Entry(l, seps) ==
  LET c == Core(l, WhiteSpace) IN
  IF c = <<>> \/ c[1] = "#" THEN Null ELSE Arr(Runs(c, seps))

\* The result has one entry per source line, in order, with seps the
\* characters that separate tokens
EntriesBy(seps) ==
  (call.fn = "_read_lines" /\ call.at = "returned")
  => /\ Len(call.ret.a) = SourceLines(call.txt)
     /\ \A i \in 1..Len(call.ret.a) :
          /\ call.ret.a[i] = Entry(SourceLine(call.txt, i), seps)
          /\ call.ret.a[i] # Null
               => /\ call.ret.a[i].a # <<>>
                  /\ \A t \in 1..Len(call.ret.a[i].a) : call.ret.a[i].a[t] # <<>>

Appended(cl, cl2) == SubSeq(cl2.inds, Len(cl.inds) + 1, Len(cl2.inds))

\* The step kept the entries that inds had
KeptInds(cl, cl2) ==
  Len(cl2.inds) >= Len(cl.inds) /\ SubSeq(cl2.inds, 1, Len(cl.inds)) = cl.inds

\* The strip between the ring that starts at the vertex ra and the ring that
\* starts at rb: the pairs (ra+i, rb+i) for i = 0..n-1, the first pair again
\* and rb once more
Stitch(ra, rb, n) ==
  [x \in 1..(2 * n + 3) |->
     IF x = 2 * n + 3 THEN rb
     ELSE IF x % 2 = 1 THEN ra + (((x - 1) \div 2) % n)
     ELSE rb + (((x - 2) \div 2) % n)]

\* The positions (0-based) of q whose triple has three different indices
Triangles(q) == {p \in 0..(Len(q) - 3) : Distinct3(q, p)}

\* What C27 says of one call
C27_Step ==
  (call.fn = "cylinder" /\ call.at = "called" /\ call' # call /\ call.n >= 3)
  => LET offset == Len(call.verts)
         n == call.n
         app == Appended(call, call')
     IN /\ Len(call'.verts) = offset + 2 * n
        /\ SubSeq(call'.verts, 1, offset) = call.verts
        /\ \A i \in 0..(n - 1) :
             /\ call'.verts[offset + i + 1] =
                  CirclePoint(<<call.c[1], call.c[2], call.h>>, call.r, n, i)
             /\ call'.verts[offset + n + i + 1] =
                  CirclePoint(<<call.c[1], call.c[2], -call.h>>, call.r, n, i)
        /\ KeptInds(call, call')
        /\ Len(app) = 2 * n + 3
        /\ app = Stitch(offset, offset + n, n)
        /\ Triangles(app) = 0..(2 * n - 1)

\* C27: cylinder appends 2n vertices, the top ring then the bottom ring, and
\* exactly 2n+3 indices: the pairs (top_i, bottom_i) for i = 0..n-1 in
\* order, the first pair again and bottom_0 once more; that is 2n triangles
\* of three different indices followed by one degenerate triple.
C27_CylinderStrip == [][C27_Step]_vars

\* C27's case: cylinder returned for n = 3 on verts and inds that held two
\* vertices
C27_Witness ==
  /\ call.fn = "cylinder" /\ call.at = "returned"
  /\ call.n = 3
  /\ Len(call.verts) = 8
  /\ call.inds = <<0, 1>> \o <<2, 5, 3, 6, 4, 7, 2, 5, 5>>

\* What C28 says of one call, for lead the indices appended before the
\* pattern
C28_Step(lead) ==
  (call.fn = "add_truncated_cone" /\ call.at = "called" /\ call' # call
     /\ call.n >= 3)
  => /\ call'.verts = call.verts
     /\ KeptInds(call, call')
     /\ Appended(call, call') =
          lead \o Stitch(call.mult_1 * call.n + call.offset,
                         call.mult_2 * call.n + call.offset, call.n)

\* C28: add_truncated_cone appends, between the rings mult_1 and mult_2, the
\* index pattern that cylinder appends between its two rings (the pairs
\* (A_i, B_i) for i = 0..n-1, the first pair again, B_0 once more), and
\* appends no vertices.
C28_ConeStrip == [][C28_Step(<<>>)]_vars

\* C28 as amended: add_truncated_cone appends A_0 once and then that
\* pattern, 2n+4 indices in all.
C28_ConeStripAfterLead ==
  [][C28_Step(<<call.mult_1 * call.n + call.offset>>)]_vars

\* C28's case: the bottom cone for n = 3 and offset 1 on an empty inds
C28_Witness ==
  /\ call.fn = "add_truncated_cone" /\ call.at = "returned"
  /\ call.n = 3 /\ call.mult_1 = 2 /\ call.mult_2 = 3 /\ call.offset = 1
  /\ call.inds = <<7, 7, 10, 8, 11, 9, 12, 7, 10, 10>>

\* The vertices of the triples of q at the positions P, as sets
TriangleSets(q, P) == {{q[p + 1], q[p + 2], q[p + 3]} : p \in P}

\* The ring vertices x, y, z, three different indices, are in the order of
\* growing angle
Ccw(x, y, z) == (x < y /\ y < z) \/ (y < z /\ z < x) \/ (z < x /\ x < y)

\* The winding of the triple at the position p of the strip q: a strip
\* turns every second triple around
StripCcw(q, p) == Ccw(q[p + 1], q[p + 2], q[p + 3]) = (p % 2 = 0)

\* What C29 says of one call but for the triangles of the other order
C29_Fill ==
  LET n == call.n
      o == call.offset
      rev == call.reverse = Bool(TRUE)
      app == Appended(call, call')
  IN /\ call'.verts = call.verts
     /\ KeptInds(call, call')
     /\ Len(app) = n + 2
     /\ app[1] = o /\ app[2] = o
     /\ \A i \in 0..((n \div 2) - 1) :
          /\ app[2 * i + 3] = o + (IF rev THEN n - i - 1 ELSE i + 1)
          /\ app[2 * i + 4] = o + (IF rev THEN i + 1 ELSE n - i - 1)
     /\ app[n + 1] = o + (n \div 2) /\ app[n + 2] = o + (n \div 2)
     /\ Cardinality(Triangles(app)) = n - 2
     /\ UNION TriangleSets(app, Triangles(app)) = o..(o + n - 1)

\* The two fills of the call's ring, and that their windings are opposite
Forward(cl) == add_circle_fill(cl.n, cl.offset, <<>>, Undefined)
Reversed(cl) == add_circle_fill(cl.n, cl.offset, <<>>, Bool(TRUE))
OppositeWinding(cl) ==
  \E w \in BOOLEAN :
    /\ \A p \in Triangles(Forward(cl)) : StripCcw(Forward(cl), p) = w
    /\ \A p \in Triangles(Reversed(cl)) : StripCcw(Reversed(cl), p) = ~w

\* The calls that C29 is about
C29_Call ==
  /\ call.fn = "add_circle_fill" /\ call.at = "called" /\ call' # call
  /\ call.n % 2 = 0 /\ call.n >= 3

\* What C29 says of one call
C29_Step ==
  C29_Call
  => /\ C29_Fill
     /\ Appended(call, call') = IF call.reverse = Bool(TRUE) THEN Reversed(call)
                                ELSE Forward(call)
     /\ TriangleSets(Reversed(call), Triangles(Reversed(call))) =
          TriangleSets(Forward(call), Triangles(Forward(call)))
     /\ OppositeWinding(call)

\* C29: for even n, add_circle_fill appends n+2 indices: the offset vertex
\* twice, then for i = 0..n/2-1 the pair (i+1, n-i-1) relative to offset
\* (in the opposite order when reverse is true), ending with the middle
\* vertex twice; the strip has exactly n-2 triangles of three different
\* indices, they use every one of the n ring vertices, and the reversed fill
\* has the same triangles as the forward fill with opposite winding.
C29_FillSameTriangles == [][C29_Step]_vars

\* The mirror image of the ring vertex x: the vertex at the opposite angle
Mirror(cl, x) == cl.offset + ((cl.n - (x - cl.offset)) % cl.n)

\* What C29 as amended says of one call
C29_MirrorStep ==
  C29_Call
  => /\ C29_Fill
     /\ Appended(call, call') = IF call.reverse = Bool(TRUE) THEN Reversed(call)
                                ELSE Forward(call)
     /\ Reversed(call) =
          [x \in 1..Len(Forward(call)) |-> Mirror(call, Forward(call)[x])]
     /\ OppositeWinding(call)

\* C29 as amended: the reversed fill is the forward fill with every vertex i
\* replaced by its mirror image (n-i) mod n, so its triangles are the mirror
\* images of the forward fill's, with opposite winding.
C29_FillMirrored == [][C29_MirrorStep]_vars

\* C29's case: the reversed fill of a ring of six vertices at offset 2
C29_Witness ==
  /\ call.fn = "add_circle_fill" /\ call.at = "returned"
  /\ call.n = 6 /\ call.offset = 2 /\ call.reverse = Bool(TRUE)
  /\ call.inds = <<2, 2, 7, 3, 6, 4, 5, 5>>

(***************************************************************************)
(* Properties of the object list                                           *)
(***************************************************************************)
\* The part holds faces when the index list has ni entries: a closed part
\* by its count, the open part by the indices added since its start
HoldsFaces(part, ni) ==
  IF "count" \in DOMAIN part THEN part.count > 0 ELSE part.start < ni

\* No part of the object holds faces
Faceless(obj, ni) ==
  \A y \in 1..Len(obj.parts) : ~HoldsFaces(obj.parts[y], ni)

\* What C30 says of one step
C30_Step ==
  LET ni == Len(inds)
      ni2 == Len(inds')
  IN /\ \A x \in 1..Len(objs') :
          /\ Len(objs'[x].parts) >= 1
          /\ (x < Len(objs') \/ pc' # "parsing") => ~Faceless(objs'[x], ni2)
     /\ (pc = "parsing" /\ Len(objs') > Len(objs)) =>
          (objs # <<>> /\ ~Faceless(Last(objs), ni))
     /\ (pc = "parsing" /\ Len(objs') < Len(objs)) =>
          (Faceless(Last(objs), ni) /\ Len(objs') = Len(objs) - 1)
     /\ (pc = "parsing" /\ Len(objs') = Len(objs) /\ pc' # "parsing") =>
          ~Faceless(Last(objs), ni)
     /\ \A x \in 1..Len(objs) : \A y \in 1..Len(objs[x].parts) :
          LET old == objs[x].parts[y] IN
          HoldsFaces(old, ni) =>
            /\ x <= Len(objs')
            /\ y <= Len(objs'[x].parts)
            /\ objs'[x].name = objs[x].name
            /\ objs'[x].parts[y].start = old.start
            /\ HoldsFaces(objs'[x].parts[y], ni2)
            /\ "count" \in DOMAIN objs'[x].parts[y] =>
                 objs'[x].parts[y].count =
                   (IF "count" \in DOMAIN old THEN old.count ELSE ni - old.start)

\* C30: every object of the list has at least one part at every moment, and
\* every object but the one being filled, and every object once the file has
\* ended (so every object delivered to ondone), holds faces; an object that
\* received no face is removed by the o line or the end of the file that
\* ends it, and no other object is; and no step, a usemtl or o line after
\* faces included, removes or moves a part that holds faces.
C30_ObjectsHoldFaces == [][C30_Step]_vars

\* C30's case: a delivered list from which the unnamed object was dropped
\* for want of faces, and whose one named object kept the two parts that a
\* usemtl line after a face separated
C30_Witness ==
  /\ ondone_calls = 1
  /\ Len(inds) = 6
  /\ Len(objs) = 1
  /\ objs[1].name # Null
  /\ Len(objs[1].parts) = 2
  /\ objs[1].parts[1].count = 3
  /\ objs[1].parts[2].count = 3

(***************************************************************************)
(* Properties of the skip array                                            *)
(***************************************************************************)
\* C31: after a call of calc_normals with a skip array, every entry of the
\* array that is a position the loop examined is a position it omitted,
\* whatever the other entries of the array are.
C31_EveryEntryHonoured ==
  (/\ call.fn = "calc_normals"
   /\ call.at # "called"
   /\ call.skip # Undefined) =>
    \A e \in 1..Len(call.skip.a) :
      call.skip.a[e] \in call.ret.examined => call.skip.a[e] \in call.ret.omitted

(***************************************************************************)
(* Properties of the whole can                                             *)
(***************************************************************************)
\* The position of the first triangle of three different indices among the
\* entries lo+1..hi of q (the positions lo..hi-3), or -1 when there is none
FirstTriangle(q, lo, hi) ==
  LET T == {p \in lo..(hi - 3) : Distinct3(q, p)}
  IN IF T = {} THEN -1 ELSE CHOOSE p \in T : \A p2 \in T : p <= p2

\* What C32 says of one call
C32_Step ==
  (/\ call.fn = "soda_can" /\ call.at = "called" /\ call' # call
   /\ call.n % 2 = 0 /\ call.n >= 4
   /\ call.verts = <<>> /\ call.inds = <<>>)
  => LET n == call.n
         q == call'.inds
         ends == CanEnds(call)
         starts == <<0, 2 * n + 4, 4 * n + 8, 6 * n + 12, 7 * n + 14>>
     IN /\ Len(q) = 8 * n + 15
        /\ Cardinality(Triangles(q)) = 8 * n - 4
        /\ ends = <<0, 2 * n + 3, 4 * n + 7, 6 * n + 11, 7 * n + 13, 8 * n + 15>>
        /\ \A k \in 1..5 :
             /\ FirstTriangle(q, ends[k], ends[k + 1]) = starts[k]
             /\ starts[k] % 2 = 0

\* C32: for an even side count n >= 4 and verts and inds empty before the
\* call, soda_can appends exactly 8n+15 indices, which hold exactly 8n-4
\* triangles of three different indices, and the first such triangle of each
\* sub-mesh (cylinder, top cone, bottom cone, top cap, bottom cap) starts at
\* the even position 0, 2n+4, 4n+8, 6n+12, 7n+14 of the sequence.
C32_EvenStarts == [][C32_Step]_vars

\* C32's case: the can of six sides built into empty arrays
C32_Witness ==
  /\ call.fn = "soda_can" /\ call.at = "returned"
  /\ call.n = 6
  /\ Len(call.verts) = 24
  /\ Len(call.inds) = 63
  /\ Distinct3(call.inds, 16) /\ ~Distinct3(call.inds, 15)

(***************************************************************************)
(* Properties of the drag handlers                                         *)
(***************************************************************************)
\* The drag listeners that the canvas has
Registered(cl) == cl.listeners.canvas \cap DragListeners

\* What C33 says of one step
C33_Step ==
  (call.fn = "mouse" /\ call' # call) =>
    /\ Registered(call') = (IF call'.drag THEN DragListeners ELSE {})
    /\ (~call.drag /\ ~call'.drag) =>
         (call'.thetas = call.thetas /\ call'.position = call.position)

\* C33: the canvas has the listeners onMouseMove and onMouseUp exactly
\* during a drag: onMouseDown adds them, and they are gone once the drag
\* has ended, by onMouseUp or by onMouseMove seeing no button pressed; and
\* between the end of a drag and the next mousedown no event changes thetas
\* or position.
C33_ListenersOnlyInDrag == [][C33_Step]_vars

====
